---- MODULE Spec2Model ----
(***************************************************************************)
(* A model of the search engine of nohrs: the tantivy-backed IndexManager  *)
(* (services/search/indexer.rs), the RipgrepBackend live scanner           *)
(* (services/search/ripgrep.rs), the debounced FileWatcher                 *)
(* (services/search/watcher.rs) and the SearchEngine that composes them    *)
(* (services/search/engine.rs).                                            *)
(*                                                                         *)
(* Text is modelled as sequences of characters so that tokenisation, case  *)
(* folding, line splitting and substring search are computed, not assumed. *)
(***************************************************************************)
EXTENDS Integers, Sequences, FiniteSets, Bags, TLC

(***************************************************************************)
(* Bounds of the model (not program constants).                            *)
(***************************************************************************)
MaxOps == 2
MaxRgFiles == 3
MaxExtra == 200
MaxLimit == 2
MaxMixed == 1

(***************************************************************************)
(* Program constants.                                                      *)
(***************************************************************************)
\* indexer.rs:341  TopDocs::with_limit(50)
HitLimit == 50
\* indexer.rs:170  processed % 100 == 0
ProgressEvery == 100
\* ripgrep.rs:66   const MAX_RESULTS: usize = 100
MAX_RESULTS == 100
\* engine.rs:24    mpsc::channel(100)
ChannelCap == 100
\* mod.rs:356      limit.saturating_mul(10).max(50)
FetchFloor == 50

(***************************************************************************)
(* Characters and strings.                                                 *)
(***************************************************************************)
NL == "\n"
NUL == "NUL"
SLASH == "/"

Lower(ch) == CASE ch = "A" -> "a" [] ch = "B" -> "b" [] OTHER -> ch

ToLower(s) == [i \in 1..Len(s) |-> Lower(s[i])]

IsAlnum(ch) == ch \in {"a", "b", "c", "A", "B", "h", "d", "f", "g", "o"}

\* str::contains: needle occurs in hay as a contiguous substring
Contains(hay, needle) ==
    \E i \in 0..(Len(hay) - Len(needle)) : SubSeq(hay, i + 1, i + Len(needle)) = needle

\* the default tokenizer of a TEXT field: split at non-alphanumerics, lower-case
RECURSIVE TokenizeFrom(_, _, _)
TokenizeFrom(s, i, cur) ==
    IF i > Len(s)
    THEN (IF cur = <<>> THEN {} ELSE {cur})
    ELSE IF IsAlnum(s[i])
         THEN TokenizeFrom(s, i + 1, Append(cur, Lower(s[i])))
         ELSE (IF cur = <<>> THEN {} ELSE {cur}) \cup TokenizeFrom(s, i + 1, <<>>)

Tokenize(s) == TokenizeFrom(s, 1, <<>>)

\* str::lines: split at newlines, no trailing empty line
RECURSIVE LinesFrom(_, _, _)
LinesFrom(s, i, cur) ==
    IF i > Len(s)
    THEN (IF cur = <<>> THEN <<>> ELSE <<cur>>)
    ELSE IF s[i] = NL
         THEN <<cur>> \o LinesFrom(s, i + 1, <<>>)
         ELSE LinesFrom(s, i + 1, Append(cur, s[i]))

Lines(s) == LinesFrom(s, 1, <<>>)

(***************************************************************************)
(* Paths.  HOME is the directory the watcher watches (dirs::home_dir()),   *)
(* content_root the directory index_home walks (home/Documents).           *)
(***************************************************************************)
HOME == <<SLASH, "h">>
content_root == HOME \o <<SLASH, "d">>
PathF == content_root \o <<SLASH, "f">>
PathG == content_root \o <<SLASH, "g">>
PathO == HOME \o <<SLASH, "o">>

Paths == {content_root, PathF, PathG, PathO}

\* the order in which the walker yields the entries of content_root
WalkOrder == <<content_root, PathF, PathG>>

\* Path::starts_with on components: p is root or lies below it
Inside(p, root) ==
    \/ p = root
    \/ /\ Len(p) > Len(root)
       /\ SubSeq(p, 1, Len(root)) = root
       /\ p[Len(root) + 1] = SLASH

\* Path::file_name: the last component
RECURSIVE LastSlash(_, _)
LastSlash(p, i) == IF i = 0 THEN 0 ELSE IF p[i] = SLASH THEN i ELSE LastSlash(p, i - 1)

file_name(p) == SubSeq(p, LastSlash(p, Len(p)) + 1, Len(p))

(***************************************************************************)
(* The file system: what is at each path.                                  *)
(***************************************************************************)
Absent == [kind |-> "absent", content |-> <<>>, big |-> FALSE, readable |-> FALSE]
Dir == [kind |-> "dir", content |-> <<>>, big |-> FALSE, readable |-> FALSE]
TextFile(c) == [kind |-> "file", content |-> c, big |-> FALSE, readable |-> TRUE]
\* a text file of more than 10 MiB
BigFile(c) == [kind |-> "file", content |-> c, big |-> TRUE, readable |-> TRUE]
\* a file read_to_string fails on (invalid UTF-8, permission denied)
Unreadable == [kind |-> "file", content |-> <<>>, big |-> FALSE, readable |-> FALSE]

\* "Ab\nc"
Content1 == <<"A", "b", NL, "c">>
\* "c ba"
Content2 == <<"c", " ", "b", "a">>
\* "a\0"
ContentBin == <<"a", NUL>>

FileStates(p) ==
    CASE p = content_root -> {Dir}
      [] p = PathF -> {Absent, TextFile(Content1), TextFile(Content2),
                       TextFile(ContentBin), BigFile(Content2), Unreadable}
      [] p = PathG -> {Absent, Dir}
      [] OTHER -> {Absent, TextFile(Content1)}

is_file(st) == st.kind = "file"
is_dir(st) == st.kind = "dir"
exists(st) == st.kind # "absent"

(***************************************************************************)
(* Documents and the index.  A document carries the exact path, the terms  *)
(* of its tokenised fields and the is_directory flag.                      *)
(***************************************************************************)
\* FileDoc, had the content field been given the path alone
FileDocPathOnly(p, content) ==
    [path |-> p,
     filename |-> Tokenize(file_name(p)),
     content |-> Tokenize(p),
     is_directory |-> 0]

FileDoc(p, content) ==
    [path |-> p,
     filename |-> Tokenize(file_name(p)),
     content |-> Tokenize(p \o <<NL>> \o content),
     is_directory |-> 0]

DirDoc(p) ==
    [path |-> p,
     filename |-> Tokenize(file_name(p)),
     content |-> Tokenize(file_name(p)),
     is_directory |-> 1]

DeleteOp(p) == [op |-> "delete", path |-> p]
AddOp(d) == [op |-> "add", doc |-> d]

\* IndexWriter::delete_term on the path field: every document with that path
DeleteTerm(idx, p) ==
    LET keep == {d \in DOMAIN idx : d.path # p}
    IN  [d \in keep |-> idx[d]]

AddDocument(idx, d) == idx (+) SetToBag({d})

\* the pending operations of the writer, applied in opstamp order
RECURSIVE ApplyOps(_, _)
ApplyOps(idx, ops) ==
    IF ops = <<>> THEN idx
    ELSE LET o == Head(ops)
         IN  ApplyOps(IF o.op = "delete" THEN DeleteTerm(idx, o.path)
                      ELSE AddDocument(idx, o.doc), Tail(ops))

num_docs(idx) == BagCardinality(idx)

DocsAt(idx, p) == {d \in DOMAIN idx : d.path = p}


(***************************************************************************)
(* IndexManager: the operations on one path.  Each returns the writer      *)
(* operations it issues.                                                   *)
(***************************************************************************)
\* index_single_directory without the delete_term before the add
index_single_directory_no_delete(p) == <<AddOp(DirDoc(p))>>

index_single_directory(p) == <<DeleteOp(p), AddOp(DirDoc(p))>>

\* index_single_file without the delete_term before the add
index_single_file_no_delete(p, st) ==
    IF ~exists(st) THEN <<>>
    ELSE IF st.big THEN <<>>
    ELSE IF ~is_file(st) \/ ~st.readable THEN <<>>
    ELSE IF \E i \in 1..Len(st.content) : st.content[i] = NUL THEN <<>>
    ELSE <<AddOp(FileDoc(p, st.content))>>

\* index_single_file without the test for a null byte
index_single_file_no_skip(p, st) ==
    IF ~exists(st) THEN <<>>
    ELSE IF st.big THEN <<>>
    ELSE IF ~is_file(st) \/ ~st.readable THEN <<>>
    ELSE <<DeleteOp(p), AddOp(FileDoc(p, st.content))>>

index_single_file(p, st) ==
    IF ~exists(st) THEN <<>>                        \* fs::metadata fails: Err
    ELSE IF st.big THEN <<>>                        \* larger than 10 MiB: skipped
    ELSE IF ~is_file(st) \/ ~st.readable THEN <<>>  \* read_to_string fails: skipped
    ELSE IF \E i \in 1..Len(st.content) : st.content[i] = NUL THEN <<>>
    ELSE <<DeleteOp(p), AddOp(FileDoc(p, st.content))>>

\* the entries the walker yields for content_root, the root itself first
RECURSIVE WalkFrom(_, _)
WalkFrom(fsv, i) ==
    IF i > Len(WalkOrder) THEN <<>>
    ELSE (IF exists(fsv[WalkOrder[i]]) THEN <<WalkOrder[i]>> ELSE <<>>)
         \o WalkFrom(fsv, i + 1)

Walk(fsv) == WalkFrom(fsv, 1)

\* index_home, step 1: the entries counted for the progress total
CountEntries(fsv, ex) ==
    Cardinality({i \in 1..Len(Walk(fsv)) :
                    is_file(fsv[Walk(fsv)[i]]) \/ is_dir(fsv[Walk(fsv)[i]])})
    + (IF is_dir(fsv[content_root]) THEN ex.binary ELSE 0)

\* how many entries the indexing walk yields; without content_root the walker
\* yields one error and no entry
WalkLen(fsv, ex) ==
    Len(Walk(fsv)) + (IF is_dir(fsv[content_root]) THEN ex.binary + ex.other ELSE 0)

\* index_home, step 2: the writer operations of the indexing walk
RECURSIVE IndexWalkOps(_, _)
IndexWalkOps(fsv, entries) ==
    IF entries = <<>> THEN <<>>
    ELSE LET p == Head(entries)
         IN  (IF is_file(fsv[p]) THEN index_single_file(p, fsv[p])
              ELSE IF is_dir(fsv[p]) THEN index_single_directory(p)
              ELSE <<>>)
             \o IndexWalkOps(fsv, Tail(entries))

\* the loop of process_changes, had it ignored the paths that are gone
RECURSIVE ProcessOpsNoDelete(_, _)
ProcessOpsNoDelete(fsv, paths) ==
    IF paths = <<>> THEN <<>>
    ELSE LET p == Head(paths)
         IN  (IF exists(fsv[p]) THEN index_single_file(p, fsv[p]) ELSE <<>>)
             \o ProcessOpsNoDelete(fsv, Tail(paths))

\* process_changes: the loop over the batch
RECURSIVE ProcessOps(_, _)
ProcessOps(fsv, paths) ==
    IF paths = <<>> THEN <<>>
    ELSE LET p == Head(paths)
         IN  (IF exists(fsv[p]) THEN index_single_file(p, fsv[p])
              ELSE <<DeleteOp(p)>>)
             \o ProcessOps(fsv, Tail(paths))

(***************************************************************************)
(* Progress values are the f32 fractions sent on the watch channel, kept   *)
(* as exact fractions <<numerator, denominator>>.                          *)
(***************************************************************************)
Frac(n, d) == <<n, d>>
P0 == Frac(0, 1)
P1 == Frac(1, 1)
FracLeq(x, y) == x[1] * y[2] <= y[1] * x[2]

\* the fractions sent while the indexing walk handles its entries n+1 .. m:
\* processed runs through n+1 .. m and processed / total_files is sent at every
\* multiple of 100, provided total_files > 0
WalkProgress(n, m, total) ==
    IF total > 0
    THEN [j \in 1..((m \div ProgressEvery) - (n \div ProgressEvery)) |->
             Frac(((n \div ProgressEvery) + j) * ProgressEvery, total)]
    ELSE <<>>

(***************************************************************************)
(* IndexManager::search (the Home backend).                                *)
(***************************************************************************)
Queries == {<<"a", "b">>, <<"B", "A">>, <<"c">>, <<"g">>, <<"d">>}

PathSeq == <<content_root, PathF, PathG, PathO>>

Matches(d, q) == Tokenize(q) \cap (d.filename \cup d.content) # {}

RECURSIVE SetToSeq(_)
SetToSeq(S) ==
    IF S = {} THEN <<>>
    ELSE LET x == CHOOSE y \in S : TRUE IN <<x>> \o SetToSeq(S \ {x})

RECURSIVE Copies(_, _)
Copies(x, n) == IF n = 0 THEN <<>> ELSE <<x>> \o Copies(x, n - 1)

RECURSIVE HitsOf(_, _)
HitsOf(idx, ds) ==
    IF ds = <<>> THEN <<>>
    ELSE Copies(Head(ds), idx[Head(ds)]) \o HitsOf(idx, Tail(ds))

RECURSIVE HitsFrom(_, _, _)
HitsFrom(idx, q, i) ==
    IF i > Len(PathSeq) THEN <<>>
    ELSE HitsOf(idx, SetToSeq({d \in DocsAt(idx, PathSeq[i]) : Matches(d, q)}))
         \o HitsFrom(idx, q, i + 1)

\* searcher.search(&query, TopDocs::with_limit(50))
TopDocs(idx, q) ==
    LET all == HitsFrom(idx, q, 1)
    IN  SubSeq(all, 1, IF Len(all) < HitLimit THEN Len(all) ELSE HitLimit)

SearchResult(p, n, line) == [path |-> p, line_number |-> n, line_content |-> line]

RECURSIVE MatchLinesFrom(_, _, _)
MatchLinesFrom(ls, q, i) ==
    IF i > Len(ls) THEN <<>>
    ELSE (IF Contains(ToLower(ls[i]), ToLower(q)) THEN <<<<i, ls[i]>>>> ELSE <<>>)
         \o MatchLinesFrom(ls, q, i + 1)

find_all_match_lines(st, q) ==
    IF is_file(st) /\ st.readable THEN MatchLinesFrom(Lines(st.content), q, 1) ELSE <<>>

HitResults(d, fsv, q) ==
    IF d.is_directory = 1 THEN <<SearchResult(d.path, 0, <<>>)>>
    ELSE LET ml == find_all_match_lines(fsv[d.path], q)
         IN  IF ml = <<>> THEN <<SearchResult(d.path, 0, <<>>)>>
             ELSE [i \in 1..Len(ml) |-> SearchResult(d.path, ml[i][1], ml[i][2])]

RECURSIVE ResultsOf(_, _, _)
ResultsOf(hits, fsv, q) ==
    IF hits = <<>> THEN <<>>
    ELSE HitResults(Head(hits), fsv, q) \o ResultsOf(Tail(hits), fsv, q)

HomeSearch(idx, fsv, q) == ResultsOf(TopDocs(idx, q), fsv, q)

ResultPaths(rs) == {rs[i].path : i \in 1..Len(rs)}


(***************************************************************************)
(* Query strings: what the parsers of the two backends accept.              *)
(***************************************************************************)
LPAREN == "("
RPAREN == ")"

\* the nesting depth of the groups of q after its first i characters, or -1
\* when a group is closed that was never opened
RECURSIVE Depth(_, _)
Depth(q, i) ==
    IF i = 0 THEN 0
    ELSE LET d == Depth(q, i - 1)
         IN  IF d < 0 THEN d
             ELSE IF q[i] = LPAREN THEN d + 1
             ELSE IF q[i] = RPAREN THEN d - 1
             ELSE d

\* a query parser that accepts every string
parse_query_lenient(q) == TRUE

\* QueryParser::parse_query is Ok: of the strings of the model, those whose
\* groups are closed
parse_query(q) == Depth(q, Len(q)) = 0

\* RegexMatcher::new is Ok: of the strings of the model, those whose groups
\* are closed
RegexMatcherNew(q) == Depth(q, Len(q)) = 0

BadQuery == <<LPAREN, "c">>
(***************************************************************************)
(* SearchService (services/search/mod.rs): two indexes over the tree under *)
(* base_path, one of names and one of contents, rebuilt from scratch and   *)
(* queried with a scope and a limit.                                       *)
(***************************************************************************)
\* SearchServiceConfig::base_path, canonical
base_path == content_root
SvcGF == PathG \o <<SLASH, "f">>
SvcGG == base_path \o <<SLASH, "g", "g">>
SvcL == base_path \o <<SLASH, "l">>
SvcX == base_path \o <<SLASH, "o">>

\* the paths WalkDir::new(base_path) may yield; it follows no link
SvcEntries == {base_path, PathF, PathG, SvcGF, SvcGG, SvcL}

\* where every symbolic link of the model points
LinkTarget == HOME

\* the trees of the model: f is a text file, l a link out of the tree, g a
\* directory holding a file, a link out of the tree or absent, gg a file that
\* is not valid UTF-8 or absent; o never exists
SvcTrees ==
    {[p \in {PathF, PathG, SvcGG, SvcL} |->
         CASE p = PathF -> "file" [] p = PathG -> g [] p = SvcGG -> gg [] OTHER -> "symlink"] :
     g \in {"dir", "symlink", "absent"}, gg \in {"file", "absent"}}

\* fs::symlink_metadata
SvcKind(t, p) ==
    CASE p \in {HOME, base_path, PathO} -> "dir"
      [] p \in DOMAIN t -> t[p]
      [] p = SvcGF -> (IF t[PathG] = "dir" THEN "file" ELSE "absent")
      [] OTHER -> "absent"

\* fs::read_to_string(path).ok()
SvcContent(p) ==
    CASE p = PathF -> <<TRUE, Content1>>
      [] p = SvcGF -> <<TRUE, Content2>>
      [] OTHER -> <<FALSE, <<>>>>

\* fs::canonicalize: <<TRUE, resolved path>> or <<FALSE, _>> for an io error
canonicalize(t, p) ==
    CASE SvcKind(t, p) = "symlink" -> <<TRUE, LinkTarget>>
      [] SvcKind(t, p) = "absent" -> <<FALSE, <<>>>>
      [] OTHER -> <<TRUE, p>>

FileRecord(p, kind) ==
    [path |-> p, name |-> file_name(p), kind |-> kind,
     content |-> IF kind = "file" THEN SvcContent(p) ELSE <<FALSE, <<>>>>]

\* SearchService::collect_records: every entry the walk from base_path
\* yields, but base_path itself
collect_records(t) ==
    {FileRecord(p, SvcKind(t, p)) :
        p \in {q \in SvcEntries : SvcKind(t, q) # "absent"
                                  /\ ~(SvcKind(t, q) = "dir" /\ q = base_path)}}

\* IndexKind::accepts
accepts(kind, record) ==
    IF kind = "FileNames" THEN TRUE ELSE record.kind = "file" /\ record.content[1]

\* a document: the stored path, name and kind, and the terms of the index's
\* primary field
SvcDoc(kind, record) ==
    [path |-> record.path, name |-> record.name, kind |-> record.kind,
     terms |-> IF kind = "FileNames" THEN Tokenize(record.name)
               ELSE Tokenize(record.content[2])]

\* SearchIndex::rebuild: delete_all_documents, then one document per accepted
\* record
SvcRebuildIndex(kind, records) ==
    {SvcDoc(kind, r) : r \in {x \in records : accepts(kind, x)}}

NoSvcIndex == [FileNames |-> {}, FileContents |-> {}]

\* str::starts_with
StartsWithStr(p, root) == Len(p) >= Len(root) /\ SubSeq(p, 1, Len(root)) = root

\* SearchService::scope_filter, had it accepted every path that resolves
scope_filter_unchecked(t, scope) ==
    IF scope.root THEN [status |-> "ok", filter |-> <<>>]
    ELSE LET full == canonicalize(t, scope.path)
         IN  IF ~full[1] THEN [status |-> "io_err", filter |-> <<>>]
             ELSE [status |-> "ok", filter |-> <<full[2]>>]

\* SearchService::scope_filter: no filter for Root, the canonical path for a
\* subtree of base_path
scope_filter(t, scope) ==
    IF scope.root THEN [status |-> "ok", filter |-> <<>>]
    ELSE LET full == canonicalize(t, scope.path)
         IN  IF ~full[1] THEN [status |-> "io_err", filter |-> <<>>]
             ELSE IF ~Inside(full[2], base_path)
                  THEN [status |-> "invalid_scope", filter |-> <<>>]
                  ELSE [status |-> "ok", filter |-> <<full[2]>>]

\* ScopeFilter::new(path).prefix
ScopePrefix(root) == IF root[Len(root)] = SLASH THEN root ELSE Append(root, SLASH)

\* ScopeFilter::matches
ScopeMatches(root, candidate) ==
    candidate = root \/ StartsWithStr(candidate, ScopePrefix(root))

IsSpace(ch) == ch \in {" ", NL}

\* str::trim().is_empty()
TrimIsEmpty(q) == \A i \in 1..Len(q) : IsSpace(q[i])

\* the Levenshtein distance of a and b, a transposition counting one, is at
\* most 1
WithinOne(a, b) ==
    \/ a = b
    \/ /\ Len(a) = Len(b)
       /\ \E i \in 1..Len(a) : \A j \in 1..Len(a) : j # i => a[j] = b[j]
    \/ /\ Len(a) = Len(b)
       /\ \E i \in 1..(Len(a) - 1) :
             /\ a[i] = b[i + 1] /\ a[i + 1] = b[i]
             /\ \A j \in 1..Len(a) : j \notin {i, i + 1} => a[j] = b[j]
    \/ /\ Len(a) = Len(b) + 1
       /\ \E i \in 1..Len(a) : SubSeq(a, 1, i - 1) \o SubSeq(a, i + 1, Len(a)) = b
    \/ /\ Len(b) = Len(a) + 1
       /\ \E i \in 1..Len(b) : SubSeq(b, 1, i - 1) \o SubSeq(b, i + 1, Len(b)) = a

Exact == [fuzzy |-> FALSE, distance |-> 0]
Fuzzy(d) == [fuzzy |-> TRUE, distance |-> d]

\* SearchIndex::build_query is Ok
build_query_ok(q, mode) == mode.fuzzy \/ parse_query(q)

\* the documents the query of build_query matches
SvcMatches(d, q, mode) ==
    IF mode.fuzzy
    THEN \E t \in d.terms : IF mode.distance = 0 THEN t = q ELSE WithinOne(t, q)
    ELSE Tokenize(q) \cap d.terms # {}

Min(a, b) == IF a < b THEN a ELSE b
Max(a, b) == IF a > b THEN a ELSE b

\* fetch_limit of SearchIndex::search
fetch_limit(limit, n) ==
    IF n = 0 THEN Max(limit, 1)
    ELSE Max(Min(Max(limit * 10, FetchFloor), n), Min(limit, n))

\* the orders in which the collector may rank the documents of S
Rankings(S) ==
    {r \in [1..Cardinality(S) -> S] : \A i, j \in 1..Cardinality(S) : r[i] = r[j] => i = j}

Take(s, n) == SubSeq(s, 1, Min(n, Len(s)))

SearchHit(d) == [path |-> d.path, name |-> d.name, kind |-> d.kind]

\* results.retain(|hit| filter.matches(&hit.path))
RECURSIVE Retain(_, _)
Retain(hits, filter) ==
    IF hits = <<>> THEN <<>>
    ELSE (IF filter = <<>> \/ ScopeMatches(filter[1], Head(hits).path)
          THEN <<Head(hits)>> ELSE <<>>) \o Retain(Tail(hits), filter)

Outcome(status, queried, hits) == [status |-> status, queried |-> queried, hits |-> hits]

\* SearchIndex::search: the outcomes it may have, one per ranking
IndexSearch(docs, q, mode, filter, limit) ==
    IF TrimIsEmpty(q) THEN {Outcome("ok", TRUE, <<>>)}
    ELSE IF ~build_query_ok(q, mode) THEN {Outcome("query_err", TRUE, <<>>)}
    ELSE LET matched == {d \in docs : SvcMatches(d, q, mode)}
             fetch == fetch_limit(limit, Cardinality(docs))
         IN  {Outcome("ok", TRUE,
                      Take(Retain([i \in 1..Min(fetch, Cardinality(matched)) |->
                                      SearchHit(r[i])], filter), limit)) :
              r \in Rankings(matched)}

\* SearchService::search
ServiceSearch(t, idx, req) ==
    IF req.limit = 0 THEN {Outcome("ok", FALSE, <<>>)}
    ELSE LET sf == scope_filter(t, req.scope)
         IN  IF sf.status # "ok" THEN {Outcome(sf.status, FALSE, <<>>)}
             ELSE IndexSearch(idx[req.domain], req.query, req.mode, sf.filter, req.limit)

Root == [root |-> TRUE, path |-> <<>>]
Subtree(p) == [root |-> FALSE, path |-> p]

SvcScopes == {Root} \cup {Subtree(p) : p \in {base_path, PathG, SvcGF, SvcGG, SvcL, SvcX, HOME, PathO}}
SvcQueries == {<<"f">>, <<"c">>, <<" ">>, BadQuery}
SvcModes == {Exact, Fuzzy(1)}
SvcDomains == {"FileNames", "FileContents"}

SearchRequest ==
    [domain : SvcDomains, query : SvcQueries, mode : SvcModes, scope : SvcScopes,
     limit : 0..MaxLimit]

NoRequest == [domain |-> "FileNames", query |-> <<>>, mode |-> Exact, scope |-> Root, limit |-> 10]
NoSvcOut == [req |-> NoRequest, out |-> Outcome("none", FALSE, <<>>)]

(***************************************************************************)
(* State.                                                                  *)
(***************************************************************************)
VARIABLES
    fs,           \* the file system: path -> what is there
    committed,    \* the committed index: a bag of documents (what a new reader sees)
    pending,      \* the writer's uncommitted operations
    writer,       \* the holder of the writer mutex, or "none"
    pc,           \* where each task is
    batch,        \* the paths argument of each task's current or last call
    doc_count,    \* the startup task's reader.searcher().num_docs()
    total_files,  \* index_home's total_files
    progress,     \* the current value of the progress watch channel
    progressLog,  \* every value sent on it, in order
    events,       \* the paths the debouncer holds for its next batch
    chan,         \* the watcher's mpsc channel
    txBase,       \* the committed index when the writer mutex was last taken
    fsRead,       \* the file system as the lock holder's walk or loop read it
    cleanSince,   \* a rebuild committed and neither tree nor index changed since
    last,         \* the last call that committed: what, by whom, on which paths
    nOps,         \* how many file-system changes and API calls have happened
    extra,        \* further entries of content_root: how many binary files, and
                  \* how many entries that are neither file nor directory
    rgFiles, rgIdx, rgMatch, rgResults, rgPc, \* one RipgrepBackend::search
    meta,         \* the index directory's meta.json: "absent", "ok" or "corrupt"
    schema,       \* the fields of the index's schema
    poisoned,     \* a thread panicked while it held the writer mutex
    watcherAlive, \* the FileWatcher has not been dropped
    cb,           \* the batch the debouncer's callback is about to send, if any
    spc,          \* where each search caller is
    sq,           \* each search caller's query
    sres,         \* each search caller's result
    svcFs,        \* the tree under the SearchService's base path
    svcIndex,     \* the SearchService's two indexes
    svcOut        \* the last SearchService::search: its request and outcome

vars == <<fs, committed, pending, writer, pc, batch, doc_count, total_files,
          progress, progressLog, events, chan, txBase, fsRead, cleanSince, last, nOps,
          extra, rgFiles, rgIdx, rgMatch, rgResults, rgPc,
          meta, schema, poisoned, watcherAlive, cb, spc, sq, sres,
          svcFs, svcIndex, svcOut>>

indexVars == <<fs, committed, pending, writer, pc, batch, doc_count,
               events, chan, txBase, fsRead, cleanSince, last, nOps>>
progressVars == <<total_files, progress, progressLog>>
extraVars == <<extra>>
rgVars == <<rgFiles, rgIdx, rgMatch, rgResults, rgPc>>
openVars == <<meta, schema>>
faultVars == <<poisoned, watcherAlive, cb>>
searchVars == <<spc, sq, sres>>
svcVars == <<svcFs, svcIndex, svcOut>>

\* no SearchService is in use
InitSvcOff == svcFs \in {t \in SvcTrees : t[PathG] = "dir" /\ t[SvcGG] = "file"}
              /\ svcIndex = NoSvcIndex /\ svcOut = NoSvcOut

Procs == {"startup", "watch", "api"}

NoRead == [p \in Paths |-> Absent]

Call(op, p, paths, again) == [op |-> op, by |-> p, paths |-> paths, repeat |-> again]
NoCall == Call("none", "none", <<>>, FALSE)

\* the trees the engine may be started on
InitTrees ==
    {[p \in Paths |-> IF p = content_root THEN Dir ELSE Absent],
     [p \in Paths |-> IF p = content_root THEN Dir
                      ELSE IF p = PathF THEN TextFile(Content1) ELSE Absent],
     [p \in Paths |-> IF p = content_root THEN Dir
                      ELSE IF p = PathF THEN TextFile(Content1)
                      ELSE IF p = PathG THEN Dir ELSE Absent]}

\* the index a previous run left: empty, or the rebuild of one of the trees
InitIndexes ==
    {EmptyBag} \cup {ApplyOps(EmptyBag, IndexWalkOps(t, Walk(t))) : t \in InitTrees}

NoExtra == [binary |-> 0, other |-> 0]

\* IndexManager::create_schema: the fields of a new index
create_schema == {"path", "filename", "content", "last_modified", "is_directory"}

\* the fields index_home, process_changes and search look up in the schema
IndexFields == {"path", "filename", "content", "is_directory"}

\* the debouncer's callback holds no batch
NoBatch == <<>>

\* the callers of SearchEngine::search
Searchers == {"s1", "s2"}

\* what SearchEngine::search returned: Ok or Err, from which backend on which
\* root; for the index the searcher it opened and the files it read, for
\* ripgrep the results
Result(ok, by, root, idx, files, rs) ==
    [ok |-> ok, by |-> by, root |-> root, idx |-> idx, files |-> files, results |-> rs]
NoResult == Result(TRUE, "none", <<>>, EmptyBag, NoRead, <<>>)
NoQuery == [q |-> <<>>, scope |-> "none"]

\* a running engine on an index that was opened or created: no fault yet,
\* no search yet
InitRunning ==
    /\ meta = "ok"
    /\ schema = create_schema
    /\ poisoned = FALSE
    /\ watcherAlive = TRUE
    /\ cb = NoBatch
    /\ spc = [c \in Searchers |-> "idle"]
    /\ sq = [c \in Searchers |-> NoQuery]
    /\ sres = [c \in Searchers |-> NoResult]

InitRgIdle == rgFiles = <<>> /\ rgIdx = 0 /\ rgMatch = 0 /\ rgResults = <<>> /\ rgPc = "off"

InitIndex(trees, indexes) ==
    /\ fs \in trees
    /\ committed \in indexes
    /\ pending = <<>>
    /\ writer = "none"
    /\ pc = [p \in Procs |-> CASE p = "startup" -> "s_check"
                               [] p = "watch" -> "recv"
                               [] OTHER -> "idle"]
    /\ batch = [p \in Procs |-> <<>>]
    /\ doc_count = 0
    /\ total_files = 0
    /\ progress = P1              \* watch::channel(1.0)
    /\ progressLog = <<>>
    /\ events = {}
    /\ chan = <<>>
    /\ txBase = committed
    /\ fsRead = NoRead
    /\ cleanSince = FALSE
    /\ last = NoCall
    /\ nOps = 0
    /\ InitRunning

Init == InitIndex(InitTrees, InitIndexes) /\ extra = NoExtra /\ InitRgIdle /\ InitSvcOff

(***************************************************************************)
(* The writer mutex and the progress channel.                              *)
(***************************************************************************)
\* a lock() that does not wait for the holder
LockWriterNoWait(p) ==
    /\ writer' = p
    /\ txBase' = committed

\* self.writer.lock(): waits until the mutex is free; Ok when no holder
\* panicked before
LockWriter(p) ==
    /\ writer = "none"
    /\ ~poisoned
    /\ writer' = p
    /\ txBase' = committed

\* the guard is dropped when the call returns
UnlockWriter(p) == writer' = "none"

\* tx.send(v) for each v of vs, in order
SendAll(vs) ==
    /\ progressLog' = progressLog \o vs
    /\ progress' = IF vs = <<>> THEN progress ELSE vs[Len(vs)]

\* writer.commit(): the pending operations become visible together
Commit ==
    /\ committed' = ApplyOps(committed, pending)
    /\ pending' = <<>>

WithProgress(p) == p = "startup"
Return(p) == IF p = "startup" THEN "done" ELSE IF p = "watch" THEN "recv" ELSE "idle"

\* a searcher that also saw the writer's uncommitted operations
searcherUncommitted == ApplyOps(committed, pending)

\* self.index.reader()?.searcher(): a new reader, on the last commit
searcher == committed

\* IndexManager::search as a caller gets it now
Search(q) == HomeSearch(searcher, fs, q)

(***************************************************************************)
(* The file system changes, and the watcher reports it.                    *)
(***************************************************************************)
FsChange(p, st) ==
    /\ nOps < MaxOps
    /\ st # fs[p]
    /\ fs' = [fs EXCEPT ![p] = st]
    /\ nOps' = nOps + 1
    /\ events' = IF Inside(p, HOME) /\ watcherAlive THEN events \cup {p} ELSE events
    /\ cleanSince' = FALSE
    /\ UNCHANGED <<committed, pending, writer, pc, batch, doc_count, chan,
                   txBase, fsRead, last>>
    /\ UNCHANGED <<progressVars, extraVars, rgVars, openVars, svcVars, faultVars, searchVars>>

RECURSIVE InOrder(_, _)
InOrder(S, i) ==
    IF i > Len(PathSeq) THEN <<>>
    ELSE (IF PathSeq[i] \in S THEN <<PathSeq[i]>> ELSE <<>>) \o InOrder(S, i + 1)

\* the debounce window elapses: the debouncer's thread calls the callback
\* with the events it holds, and the callback collects their paths
DebounceTimeout ==
    /\ watcherAlive
    /\ events # {}
    /\ cb = NoBatch
    /\ cb' = InOrder(events, 1)
    /\ events' = {}
    /\ UNCHANGED <<fs, committed, pending, writer, pc, batch, doc_count, chan,
                   txBase, fsRead, cleanSince, last, nOps>>
    /\ UNCHANGED <<poisoned, watcherAlive>>
    /\ UNCHANGED <<progressVars, extraVars, rgVars, openVars, svcVars, searchVars>>

\* the callback, had it dropped its batch instead of sending it
WatcherFlushDiscard ==
    /\ cb # NoBatch
    /\ cb' = NoBatch
    /\ UNCHANGED <<fs, committed, pending, writer, pc, batch, doc_count, events, chan,
                   txBase, fsRead, cleanSince, last, nOps>>
    /\ UNCHANGED <<poisoned, watcherAlive>>
    /\ UNCHANGED <<progressVars, extraVars, rgVars, openVars, svcVars, searchVars>>

\* the callback, had it sent with try_send: a batch that finds the channel
\* full is dropped
WatcherFlushTrySend ==
    /\ cb # NoBatch
    /\ chan' = IF Len(chan) < ChannelCap THEN Append(chan, cb) ELSE chan
    /\ cb' = NoBatch
    /\ UNCHANGED <<fs, committed, pending, writer, pc, batch, doc_count, events,
                   txBase, fsRead, cleanSince, last, nOps>>
    /\ UNCHANGED <<poisoned, watcherAlive>>
    /\ UNCHANGED <<progressVars, extraVars, rgVars, openVars, svcVars, searchVars>>

\* the callback's tx.blocking_send(paths): waits while the channel is full;
\* Err, and the batch is dropped, when the receiving task is gone
WatcherFlush ==
    /\ cb # NoBatch
    /\ pc["watch"] = "dead" \/ Len(chan) < ChannelCap
    /\ chan' = IF pc["watch"] = "dead" THEN chan ELSE Append(chan, cb)
    /\ cb' = NoBatch
    /\ UNCHANGED <<fs, committed, pending, writer, pc, batch, doc_count, events,
                   txBase, fsRead, cleanSince, last, nOps>>
    /\ UNCHANGED <<poisoned, watcherAlive>>
    /\ UNCHANGED <<progressVars, extraVars, rgVars, openVars, svcVars, searchVars>>

(***************************************************************************)
(* IndexManager::index_home.                                               *)
(***************************************************************************)
IhBegin(p) ==
    /\ pc[p] = "ih_begin"
    /\ LockWriter(p)
    /\ IndexFields \subseteq schema
    /\ IF WithProgress(p)
       THEN /\ SendAll(<<P0>>)
            /\ total_files' = CountEntries(fs, extra)
       ELSE /\ SendAll(<<>>)
            /\ total_files' = 0
    /\ pc' = [pc EXCEPT ![p] = "ih_walk"]
    /\ UNCHANGED <<fs, committed, pending, batch, doc_count, events, chan,
                   fsRead, cleanSince, last, nOps>>
    /\ UNCHANGED <<extraVars, rgVars, openVars, svcVars, faultVars, searchVars>>

IhWalk(p) ==
    /\ pc[p] = "ih_walk"
    /\ pending' = pending \o IndexWalkOps(fs, Walk(fs))
    /\ fsRead' = fs
    /\ SendAll(IF WithProgress(p) THEN WalkProgress(0, WalkLen(fs, extra), total_files)
               ELSE <<>>)
    /\ pc' = [pc EXCEPT ![p] = IF WithProgress(p) THEN "ih_done" ELSE "ih_commit"]
    /\ UNCHANGED <<fs, committed, writer, batch, doc_count, total_files, events,
                   chan, txBase, cleanSince, last, nOps>>
    /\ UNCHANGED <<extraVars, rgVars, openVars, svcVars, faultVars, searchVars>>

\* the end of index_home's walk, had it sent 1.0 only after counting an entry
IhDoneIfCounted(p) ==
    /\ pc[p] = "ih_done"
    /\ SendAll(IF total_files > 0 THEN <<P1>> ELSE <<>>)
    /\ pc' = [pc EXCEPT ![p] = "ih_commit"]
    /\ UNCHANGED <<fs, committed, pending, writer, batch, doc_count, total_files,
                   events, chan, txBase, fsRead, cleanSince, last, nOps>>
    /\ UNCHANGED <<extraVars, rgVars, openVars, svcVars, faultVars, searchVars>>

IhDone(p) ==
    /\ pc[p] = "ih_done"
    /\ SendAll(<<P1>>)
    /\ pc' = [pc EXCEPT ![p] = "ih_commit"]
    /\ UNCHANGED <<fs, committed, pending, writer, batch, doc_count, total_files,
                   events, chan, txBase, fsRead, cleanSince, last, nOps>>
    /\ UNCHANGED <<extraVars, rgVars, openVars, svcVars, faultVars, searchVars>>

IhCommit(p) ==
    /\ pc[p] = "ih_commit"
    /\ Commit
    /\ UnlockWriter(p)
    /\ batch' = [batch EXCEPT ![p] = <<>>]
    /\ pc' = [pc EXCEPT ![p] = Return(p)]
    /\ cleanSince' = (fsRead = fs)
    /\ last' = Call("index_home", p, <<>>, cleanSince /\ fsRead = fs)
    /\ UNCHANGED <<fs, doc_count, events, chan, txBase, fsRead, nOps>>
    /\ UNCHANGED <<progressVars, extraVars, rgVars, openVars, svcVars, faultVars, searchVars>>

(***************************************************************************)
(* IndexManager::process_changes (update_file calls it with one path).     *)
(***************************************************************************)
PcBegin(p) ==
    /\ pc[p] = "pc_begin"
    /\ LockWriter(p)
    /\ pc' = [pc EXCEPT ![p] = "pc_loop"]
    /\ UNCHANGED <<fs, committed, pending, batch, doc_count, events, chan,
                   fsRead, cleanSince, last, nOps>>
    /\ UNCHANGED <<progressVars, extraVars, rgVars, openVars, svcVars, faultVars, searchVars>>

PcLoop(p) ==
    /\ pc[p] = "pc_loop"
    /\ pending' = pending \o ProcessOps(fs, batch[p])
    /\ fsRead' = fs
    /\ pc' = [pc EXCEPT ![p] = "pc_commit"]
    /\ UNCHANGED <<fs, committed, writer, batch, doc_count, events, chan,
                   txBase, cleanSince, last, nOps>>
    /\ UNCHANGED <<progressVars, extraVars, rgVars, openVars, svcVars, faultVars, searchVars>>

PcCommit(p) ==
    /\ pc[p] = "pc_commit"
    /\ Commit
    /\ UnlockWriter(p)
    /\ batch' = [batch EXCEPT ![p] = <<>>]
    /\ pc' = [pc EXCEPT ![p] = Return(p)]
    /\ cleanSince' = FALSE
    /\ last' = Call("process_changes", p, batch[p], FALSE)
    /\ UNCHANGED <<fs, doc_count, events, chan, txBase, fsRead, nOps>>
    /\ UNCHANGED <<progressVars, extraVars, rgVars, openVars, svcVars, faultVars, searchVars>>

(***************************************************************************)
(* IndexManager::remove_file.                                              *)
(***************************************************************************)
RfBegin(p) ==
    /\ pc[p] = "rf_begin"
    /\ LockWriter(p)
    /\ pc' = [pc EXCEPT ![p] = "rf_commit"]
    /\ UNCHANGED <<fs, committed, pending, batch, doc_count, events, chan,
                   fsRead, cleanSince, last, nOps>>
    /\ UNCHANGED <<progressVars, extraVars, rgVars, openVars, svcVars, faultVars, searchVars>>

\* remove_file, had it deleted the document only of a path that is gone
RfCommitIfMissing(p) ==
    /\ pc[p] = "rf_commit"
    /\ committed' = IF exists(fs[batch[p][1]]) THEN ApplyOps(committed, pending)
                    ELSE ApplyOps(committed, Append(pending, DeleteOp(batch[p][1])))
    /\ pending' = <<>>
    /\ UnlockWriter(p)
    /\ batch' = [batch EXCEPT ![p] = <<>>]
    /\ pc' = [pc EXCEPT ![p] = Return(p)]
    /\ cleanSince' = FALSE
    /\ last' = Call("remove_file", p, batch[p], FALSE)
    /\ UNCHANGED <<fs, doc_count, events, chan, txBase, fsRead, nOps>>
    /\ UNCHANGED <<progressVars, extraVars, rgVars, openVars, svcVars, faultVars, searchVars>>

RfCommit(p) ==
    /\ pc[p] = "rf_commit"
    /\ committed' = ApplyOps(committed, Append(pending, DeleteOp(batch[p][1])))
    /\ pending' = <<>>
    /\ UnlockWriter(p)
    /\ batch' = [batch EXCEPT ![p] = <<>>]
    /\ pc' = [pc EXCEPT ![p] = Return(p)]
    /\ cleanSince' = FALSE
    /\ last' = Call("remove_file", p, batch[p], FALSE)
    /\ UNCHANGED <<fs, doc_count, events, chan, txBase, fsRead, nOps>>
    /\ UNCHANGED <<progressVars, extraVars, rgVars, openVars, svcVars, faultVars, searchVars>>

(***************************************************************************)
(* SearchEngine::new: the startup task and the watcher task.               *)
(***************************************************************************)
\* the startup task, had it rebuilt whatever the document count
StartupCheckAlways ==
    /\ pc["startup"] = "s_check"
    /\ doc_count' = num_docs(committed)
    /\ SendAll(<<P0>>)
    /\ pc' = [pc EXCEPT !["startup"] = "ih_begin"]
    /\ UNCHANGED <<fs, committed, pending, writer, batch, total_files, events,
                   chan, txBase, fsRead, cleanSince, last, nOps>>
    /\ UNCHANGED <<extraVars, rgVars, openVars, svcVars, faultVars, searchVars>>

StartupCheck ==
    /\ pc["startup"] = "s_check"
    /\ doc_count' = num_docs(committed)
    /\ IF "filename" \notin schema \/ num_docs(committed) = 0
       THEN /\ SendAll(<<P0>>)
            /\ pc' = [pc EXCEPT !["startup"] = "ih_begin"]
       ELSE /\ SendAll(<<>>)
            /\ pc' = [pc EXCEPT !["startup"] = "done"]
    /\ UNCHANGED <<fs, committed, pending, writer, batch, total_files, events,
                   chan, txBase, fsRead, cleanSince, last, nOps>>
    /\ UNCHANGED <<extraVars, rgVars, openVars, svcVars, faultVars, searchVars>>

WatchRecv ==
    /\ pc["watch"] = "recv"
    /\ chan # <<>>
    /\ batch' = [batch EXCEPT !["watch"] = Head(chan)]
    /\ chan' = Tail(chan)
    /\ pc' = [pc EXCEPT !["watch"] = "pc_begin"]
    /\ UNCHANGED <<fs, committed, pending, writer, doc_count, events,
                   txBase, fsRead, cleanSince, last, nOps>>
    /\ UNCHANGED <<progressVars, extraVars, rgVars, openVars, svcVars, faultVars, searchVars>>

(***************************************************************************)
(* Direct callers of the IndexManager (as the tests are).                  *)
(***************************************************************************)
ApiCall(label, paths) ==
    /\ pc["api"] = "idle"
    /\ nOps < MaxOps
    /\ nOps' = nOps + 1
    /\ batch' = [batch EXCEPT !["api"] = paths]
    /\ pc' = [pc EXCEPT !["api"] = label]
    /\ UNCHANGED <<fs, committed, pending, writer, doc_count, events, chan,
                   txBase, fsRead, cleanSince, last>>
    /\ UNCHANGED <<progressVars, extraVars, rgVars, openVars, svcVars, faultVars, searchVars>>

\* the paths direct callers pass
ApiPaths == {PathF, PathO}

\* the batches direct callers pass to process_changes
Batches == {<<PathF, PathF>>, <<PathO, PathF>>}

ApiIndexHome == ApiCall("ih_begin", <<>>)
ApiProcessChanges == \E b \in Batches : ApiCall("pc_begin", b)
ApiUpdateFile == \E p \in ApiPaths : ApiCall("pc_begin", <<p>>)
ApiRemoveFile == \E p \in ApiPaths : ApiCall("rf_begin", <<p>>)

\* the tasks of a running SearchEngine
EngineProcs == {"startup", "watch"}

NextEngine ==
    \/ \E p \in Paths : \E st \in FileStates(p) : FsChange(p, st)
    \/ DebounceTimeout
    \/ WatcherFlush
    \/ StartupCheck
    \/ WatchRecv
    \/ \E p \in EngineProcs : IhBegin(p)
    \/ \E p \in EngineProcs : IhWalk(p)
    \/ \E p \in EngineProcs : IhDone(p)
    \/ \E p \in EngineProcs : IhCommit(p)
    \/ \E p \in EngineProcs : PcBegin(p)
    \/ \E p \in EngineProcs : PcLoop(p)
    \/ \E p \in EngineProcs : PcCommit(p)

Next ==
    \/ \E p \in Paths : \E st \in FileStates(p) : FsChange(p, st)
    \/ DebounceTimeout
    \/ WatcherFlush
    \/ StartupCheck
    \/ WatchRecv
    \/ ApiIndexHome
    \/ ApiProcessChanges
    \/ ApiUpdateFile
    \/ ApiRemoveFile
    \/ \E p \in Procs : IhBegin(p)
    \/ \E p \in Procs : IhWalk(p)
    \/ \E p \in Procs : IhDone(p)
    \/ \E p \in Procs : IhCommit(p)
    \/ \E p \in Procs : PcBegin(p)
    \/ \E p \in Procs : PcLoop(p)
    \/ \E p \in Procs : PcCommit(p)
    \/ \E p \in Procs : RfBegin(p)
    \/ \E p \in Procs : RfCommit(p)

\* the IndexManager under every caller: the engine's tasks and direct callers
Spec == Init /\ [][Next]_vars

\* the SearchEngine alone: the startup task, the watcher and its task
SpecEngine == Init /\ [][NextEngine]_vars

\* the engine opens an index that holds no document
InitEmptyIndex ==
    InitIndex(InitTrees, {EmptyBag}) /\ extra = NoExtra /\ InitRgIdle /\ InitSvcOff

SpecEngineEmpty == InitEmptyIndex /\ [][NextEngine]_vars


(***************************************************************************)
(* index_home with progress on a large tree: content_root holds, besides   *)
(* the root itself, extra.binary binary files (counted, visited, never     *)
(* indexed) and extra.other entries that are neither file nor directory    *)
(* (not counted, visited).  The tree may change between the two walks.     *)
(***************************************************************************)
ExtraSizes == {0, 1, ProgressEvery - 1, ProgressEvery, MaxExtra - 1, MaxExtra}

ExtraChange(e) ==
    /\ nOps < MaxOps
    /\ e # extra
    /\ extra' = e
    /\ nOps' = nOps + 1
    /\ cleanSince' = FALSE
    /\ UNCHANGED <<fs, committed, pending, writer, pc, batch, doc_count, events, chan,
                   txBase, fsRead, last>>
    /\ UNCHANGED <<progressVars, rgVars, openVars, svcVars, faultVars, searchVars>>

RootOnly == [p \in Paths |-> IF p = content_root THEN Dir ELSE Absent]

\* content_root (home/Documents) does not exist
NoRoot == [p \in Paths |-> Absent]

InitProgress ==
    /\ InitIndex({RootOnly, NoRoot}, {EmptyBag})
    /\ extra \in [binary : ExtraSizes, other : ExtraSizes]
    /\ InitRgIdle
    /\ InitSvcOff

NextProgress ==
    \/ \E e \in [binary : ExtraSizes, other : ExtraSizes] : ExtraChange(e)
    \/ StartupCheck
    \/ IhBegin("startup")
    \/ IhWalk("startup")
    \/ IhDone("startup")
    \/ IhCommit("startup")

SpecProgress == InitProgress /\ [][NextProgress]_vars

(***************************************************************************)
(* RipgrepBackend::search.  The walk yields entries; each regular file has *)
(* some number of lines the regex matches.                                 *)
(***************************************************************************)
RgEntry(f, n) == [is_file |-> f, matches |-> n]

RgEntries == {RgEntry(FALSE, 0), RgEntry(TRUE, 0), RgEntry(TRUE, 60),
              RgEntry(TRUE, MAX_RESULTS + 1)}

\* MatchStorage::matched without the limit check
matched_unchecked(results, r) == [results |-> Append(results, r), continue |-> TRUE]

\* MatchStorage::matched: the new results, and whether to go on with this file
matched(results, r) ==
    IF Len(results) >= MAX_RESULTS
    THEN [results |-> results, continue |-> FALSE]
    ELSE [results |-> Append(results, r), continue |-> TRUE]

\* the head of the loop over the walker
RgLoop ==
    /\ rgPc = "loop"
    /\ IF rgIdx = Len(rgFiles) \/ Len(rgResults) >= MAX_RESULTS
       THEN rgPc' = "done" /\ UNCHANGED <<rgIdx, rgMatch>>
       ELSE /\ rgIdx' = rgIdx + 1
            /\ rgMatch' = 0
            /\ rgPc' = IF rgFiles[rgIdx + 1].is_file THEN "file" ELSE "loop"
    /\ UNCHANGED <<rgFiles, rgResults>>
    /\ UNCHANGED <<indexVars, progressVars, extraVars, openVars, svcVars, faultVars, searchVars>>

\* searcher.search_path finds the next matching line and calls the sink
RgMatched ==
    /\ rgPc = "file"
    /\ rgMatch < rgFiles[rgIdx].matches
    /\ LET m == matched(rgResults, [file |-> rgIdx, line_number |-> rgMatch + 1])
       IN  /\ rgResults' = m.results
           /\ rgMatch' = rgMatch + 1
           /\ rgPc' = IF m.continue THEN "file" ELSE "loop"
    /\ UNCHANGED <<rgFiles, rgIdx>>
    /\ UNCHANGED <<indexVars, progressVars, extraVars, openVars, svcVars, faultVars, searchVars>>

\* search_path reaches the end of the file
RgFileEnd ==
    /\ rgPc = "file"
    /\ rgMatch = rgFiles[rgIdx].matches
    /\ rgPc' = "loop"
    /\ UNCHANGED <<rgFiles, rgIdx, rgMatch, rgResults>>
    /\ UNCHANGED <<indexVars, progressVars, extraVars, openVars, svcVars, faultVars, searchVars>>

InitRg ==
    /\ InitIndex({RootOnly}, {EmptyBag})
    /\ extra = NoExtra
    /\ rgFiles \in UNION {[1..n -> RgEntries] : n \in 1..MaxRgFiles}
    /\ rgIdx = 0 /\ rgMatch = 0 /\ rgResults = <<>> /\ rgPc = "loop"
    /\ InitSvcOff

NextRg == RgLoop \/ RgMatched \/ RgFileEnd

SpecRg == InitRg /\ [][NextRg]_vars

(***************************************************************************)
(* IndexManager::new_internal on the index directory a previous run left,  *)
(* and the startup task after it.                                          *)
(***************************************************************************)
\* a document as an index with the schema sch holds it
SchemaDoc(d, sch) ==
    [path |-> IF "path" \in sch THEN d.path ELSE <<>>,
     filename |-> IF "filename" \in sch THEN d.filename ELSE {},
     content |-> IF "content" \in sch THEN d.content ELSE {},
     is_directory |-> IF "is_directory" \in sch THEN d.is_directory ELSE 0]

SchemaIndex(idx, sch) ==
    LET ds == {SchemaDoc(d, sch) : d \in DOMAIN idx}
    IN  [e \in ds |-> Cardinality({d \in DOMAIN idx : SchemaDoc(d, sch) = e})]

\* the index directories a previous run or an older version left
InitOpen ==
    /\ fs \in InitTrees
    /\ meta \in {"absent", "ok", "corrupt"}
    /\ schema \in SUBSET create_schema
    /\ meta = "absent" => schema = {}
    /\ committed \in {SchemaIndex(i, schema) : i \in InitIndexes}
    /\ meta = "absent" => committed = EmptyBag
    /\ pending = <<>>
    /\ writer = "none"
    /\ pc = [p \in Procs |-> CASE p = "startup" -> "new"
                               [] p = "watch" -> "off"
                               [] OTHER -> "idle"]
    /\ batch = [p \in Procs |-> <<>>]
    /\ doc_count = 0
    /\ total_files = 0
    /\ progress = P1
    /\ progressLog = <<>>
    /\ events = {}
    /\ chan = <<>>
    /\ txBase = committed
    /\ fsRead = NoRead
    /\ cleanSince = FALSE
    /\ last = NoCall
    /\ nOps = 0
    /\ poisoned = FALSE
    /\ watcherAlive = FALSE
    /\ cb = NoBatch
    /\ spc = [c \in Searchers |-> "idle"]
    /\ sq = [c \in Searchers |-> NoQuery]
    /\ sres = [c \in Searchers |-> NoResult]
    /\ extra = NoExtra
    /\ InitRgIdle
    /\ InitSvcOff

\* new_internal: the test that makes it recreate the index
SchemaOutdated(sch) == "filename" \notin sch \/ "is_directory" \notin sch

\* IndexManager::new_internal, called by SearchEngine::new; on Ok the engine
\* starts its watcher and its tasks, on Err SearchEngine::new returns the Err
new_internal ==
    /\ pc["startup"] = "new"
    /\ \E removed \in BOOLEAN :
         LET create == meta = "absent" \/ (meta = "ok" /\ SchemaOutdated(schema) /\ removed)
             fail == meta = "corrupt" \/ (meta = "ok" /\ SchemaOutdated(schema) /\ ~removed)
         IN  /\ meta' = IF create THEN "ok" ELSE meta
             /\ schema' = IF create THEN create_schema ELSE schema
             /\ committed' = IF create THEN EmptyBag ELSE committed
             /\ pc' = IF fail THEN [pc EXCEPT !["startup"] = "ctor_err"]
                      ELSE [pc EXCEPT !["startup"] = "s_check", !["watch"] = "recv"]
             /\ watcherAlive' = ~fail
    /\ txBase' = committed'
    /\ UNCHANGED <<fs, pending, writer, batch, doc_count, events, chan,
                   fsRead, cleanSince, last, nOps>>
    /\ UNCHANGED <<poisoned, cb>>
    /\ UNCHANGED <<progressVars, extraVars, rgVars, searchVars, svcVars>>

\* index_home: a field it looks up is not in the schema, Err("Schema error")
IhSchemaErr(p) ==
    /\ pc[p] = "ih_begin"
    /\ writer = "none"
    /\ ~poisoned
    /\ ~(IndexFields \subseteq schema)
    /\ pc' = [pc EXCEPT ![p] = Return(p)]
    /\ last' = Call("index_home_err", p, <<>>, FALSE)
    /\ UNCHANGED <<fs, committed, pending, writer, batch, doc_count, events, chan,
                   txBase, fsRead, cleanSince, nOps>>
    /\ UNCHANGED <<progressVars, extraVars, rgVars, openVars, svcVars, faultVars, searchVars>>

NextOpen ==
    \/ new_internal
    \/ StartupCheck
    \/ IhSchemaErr("startup")
    \/ IhBegin("startup")
    \/ IhWalk("startup")
    \/ IhDone("startup")
    \/ IhCommit("startup")

\* SearchEngine::new on any index directory
SpecOpen == InitOpen /\ [][NextOpen]_vars

(***************************************************************************)
(* Faults: a holder of the writer mutex panics, a commit fails, and the    *)
(* FileWatcher is dropped.                                                 *)
(***************************************************************************)
\* where a task goes when its call returns Err: the watcher task logs it
ReturnErr(p) == IF p = "watch" THEN "pc_err" ELSE Return(p)

\* the rebuild's thread panics inside index_home: unwinding drops the guard,
\* which poisons the mutex; the writer keeps its uncommitted operations
HolderPanics ==
    /\ writer = "startup"
    /\ writer' = "none"
    /\ poisoned' = TRUE
    /\ pc' = [pc EXCEPT !["startup"] = "dead"]
    /\ UNCHANGED <<fs, committed, pending, batch, doc_count, events, chan,
                   txBase, fsRead, cleanSince, last, nOps>>
    /\ UNCHANGED <<watcherAlive, cb>>
    /\ UNCHANGED <<progressVars, extraVars, rgVars, openVars, svcVars, searchVars>>

\* process_changes: self.writer.lock() on a poisoned mutex is Err
PcBeginPoisoned(p) ==
    /\ pc[p] = "pc_begin"
    /\ writer = "none"
    /\ poisoned
    /\ pc' = [pc EXCEPT ![p] = ReturnErr(p)]
    /\ last' = Call("process_changes_err", p, batch[p], FALSE)
    /\ batch' = [batch EXCEPT ![p] = <<>>]
    /\ UNCHANGED <<fs, committed, pending, writer, doc_count, events, chan,
                   txBase, fsRead, cleanSince, nOps>>
    /\ UNCHANGED <<progressVars, extraVars, rgVars, openVars, svcVars, faultVars, searchVars>>

\* process_changes: writer_guard.commit() is Err; nothing becomes visible,
\* and the writer may or may not keep the operations it was given
PcCommitFail(p) ==
    /\ pc[p] = "pc_commit"
    /\ \E keep \in BOOLEAN : pending' = IF keep THEN pending ELSE <<>>
    /\ UnlockWriter(p)
    /\ pc' = [pc EXCEPT ![p] = ReturnErr(p)]
    /\ last' = Call("process_changes_err", p, batch[p], FALSE)
    /\ batch' = [batch EXCEPT ![p] = <<>>]
    /\ cleanSince' = FALSE
    /\ UNCHANGED <<fs, committed, doc_count, events, chan, txBase, fsRead, nOps>>
    /\ UNCHANGED <<progressVars, extraVars, rgVars, openVars, svcVars, faultVars, searchVars>>

\* the watcher task, had it left its loop on an error
WatchLogErrBreak ==
    /\ pc["watch"] = "pc_err"
    /\ pc' = [pc EXCEPT !["watch"] = "ended"]
    /\ UNCHANGED <<fs, committed, pending, writer, batch, doc_count, events, chan,
                   txBase, fsRead, cleanSince, last, nOps>>
    /\ UNCHANGED <<progressVars, extraVars, rgVars, openVars, svcVars, faultVars, searchVars>>

\* the watcher task: if let Err(e) = process_changes(..) { warn }, and on
\* to the next rx.recv()
WatchLogErr ==
    /\ pc["watch"] = "pc_err"
    /\ pc' = [pc EXCEPT !["watch"] = "recv"]
    /\ UNCHANGED <<fs, committed, pending, writer, batch, doc_count, events, chan,
                   txBase, fsRead, cleanSince, last, nOps>>
    /\ UNCHANGED <<progressVars, extraVars, rgVars, openVars, svcVars, faultVars, searchVars>>

\* the FileWatcher is dropped: the debouncer is told to stop without waiting
\* for its thread, so a callback that has already started still finishes
DropWatcher ==
    /\ watcherAlive
    /\ watcherAlive' = FALSE
    /\ events' = {}
    /\ UNCHANGED <<fs, committed, pending, writer, pc, batch, doc_count, chan,
                   txBase, fsRead, cleanSince, last, nOps>>
    /\ UNCHANGED <<poisoned, cb>>
    /\ UNCHANGED <<progressVars, extraVars, rgVars, openVars, svcVars, searchVars>>

\* every Sender is gone: the callback, which owns tx, went with the
\* debouncer's thread
Closed == ~watcherAlive /\ cb = NoBatch

\* rx.recv() is None: the while let loop ends
WatchEnd ==
    /\ pc["watch"] = "recv"
    /\ chan = <<>>
    /\ Closed
    /\ pc' = [pc EXCEPT !["watch"] = "ended"]
    /\ UNCHANGED <<fs, committed, pending, writer, batch, doc_count, events, chan,
                   txBase, fsRead, cleanSince, last, nOps>>
    /\ UNCHANGED <<progressVars, extraVars, rgVars, openVars, svcVars, faultVars, searchVars>>

NextFault ==
    \/ NextEngine
    \/ HolderPanics
    \/ PcBeginPoisoned("watch")
    \/ PcCommitFail("watch")
    \/ WatchLogErr
    \/ DropWatcher
    \/ WatchEnd

\* the SearchEngine with faults
SpecFault == Init /\ [][NextFault]_vars

(***************************************************************************)
(* SearchEngine::search.  Each caller's search runs on its own blocking    *)
(* thread; the model runs one Root search at a time.                       *)
(***************************************************************************)
SearchQueries == {<<"c">>, BadQuery}
Scopes == {"Home", "Root"}

\* RipgrepBackend::new(PathBuf::from("/"))
ripgrep_root == <<SLASH>>

\* what the walk from "/" yields for the Root searches of the model
RootFiles == {<<RgEntry(FALSE, 0), RgEntry(TRUE, 2)>>}

\* SearchEngine::search, had it sent every scope to the index
DispatchIndexOnly(scope) == "home"

\* SearchEngine::search: match scope
Dispatch(scope) == IF scope = "Home" THEN "home" ELSE "root"

\* a caller calls SearchEngine::search(query, scope)
SearchCall(c, q, scope) ==
    /\ spc[c] = "idle"
    /\ sq' = [sq EXCEPT ![c] = [q |-> q, scope |-> scope]]
    /\ spc' = [spc EXCEPT ![c] = Dispatch(scope)]
    /\ UNCHANGED sres
    /\ UNCHANGED <<indexVars, progressVars, extraVars, rgVars, openVars, svcVars, faultVars>>

\* IndexManager::search, had it taken the writer mutex
HomeSearchStepLocked(c) ==
    /\ spc[c] = "home"
    /\ writer = "none"
    /\ sres' = [sres EXCEPT ![c] =
                  IF ~(IndexFields \subseteq schema) \/ ~parse_query(sq[c].q)
                  THEN Result(FALSE, "index", content_root, EmptyBag, NoRead, <<>>)
                  ELSE Result(TRUE, "index", content_root, searcher, fs, <<>>)]
    /\ spc' = [spc EXCEPT ![c] = "done"]
    /\ UNCHANGED sq
    /\ UNCHANGED <<indexVars, progressVars, extraVars, rgVars, openVars, svcVars, faultVars>>

\* IndexManager::search: a new reader, the schema's fields, the query
\* parser, the top hits and the lines of each hit's file
HomeSearchStep(c) ==
    /\ spc[c] = "home"
    /\ sres' = [sres EXCEPT ![c] =
                  IF ~(IndexFields \subseteq schema) \/ ~parse_query(sq[c].q)
                  THEN Result(FALSE, "index", content_root, EmptyBag, NoRead, <<>>)
                  ELSE Result(TRUE, "index", content_root, searcher, fs, <<>>)]
    /\ spc' = [spc EXCEPT ![c] = "done"]
    /\ UNCHANGED sq
    /\ UNCHANGED <<indexVars, progressVars, extraVars, rgVars, openVars, svcVars, faultVars>>

\* RipgrepBackend::search: the matcher is built, or Err("Invalid regex");
\* then the walker
RootSearchBegin(c) ==
    /\ spc[c] = "root"
    /\ rgPc = "off"
    /\ IF RegexMatcherNew(sq[c].q)
       THEN /\ rgFiles' \in RootFiles
            /\ rgPc' = "loop"
            /\ spc' = [spc EXCEPT ![c] = "root_walk"]
            /\ UNCHANGED sres
       ELSE /\ sres' = [sres EXCEPT ![c] = Result(FALSE, "ripgrep", ripgrep_root, EmptyBag, NoRead, <<>>)]
            /\ spc' = [spc EXCEPT ![c] = "done"]
            /\ UNCHANGED <<rgFiles, rgPc>>
    /\ UNCHANGED <<rgIdx, rgMatch, rgResults, sq>>
    /\ UNCHANGED <<indexVars, progressVars, extraVars, openVars, svcVars, faultVars>>

\* RipgrepBackend::search: Ok(final_results.clone())
RootSearchReturn(c) ==
    /\ spc[c] = "root_walk"
    /\ rgPc = "done"
    /\ sres' = [sres EXCEPT ![c] = Result(TRUE, "ripgrep", ripgrep_root, EmptyBag, NoRead, rgResults)]
    /\ spc' = [spc EXCEPT ![c] = "done"]
    /\ rgFiles' = <<>> /\ rgIdx' = 0 /\ rgMatch' = 0 /\ rgResults' = <<>> /\ rgPc' = "off"
    /\ UNCHANGED sq
    /\ UNCHANGED <<indexVars, progressVars, extraVars, openVars, svcVars, faultVars>>

\* the Vec<SearchResult> a caller got: of a Home search, what
\* IndexManager::search makes of the searcher and the files it read
Results(c) ==
    IF sres[c].by = "index" /\ sres[c].ok
    THEN HomeSearch(sres[c].idx, sres[c].files, sq[c].q)
    ELSE sres[c].results

NextSearch ==
    \/ \E c \in Searchers : \E q \in SearchQueries : \E sc \in Scopes : SearchCall(c, q, sc)
    \/ \E c \in Searchers : HomeSearchStep(c)
    \/ \E c \in Searchers : RootSearchBegin(c)
    \/ \E c \in Searchers : RootSearchReturn(c)
    \/ RgLoop
    \/ RgMatched
    \/ RgFileEnd
    \/ ApiIndexHome
    \/ ApiUpdateFile
    \/ IhBegin("api")
    \/ IhWalk("api")
    \/ IhCommit("api")
    \/ PcBegin("api")
    \/ PcLoop("api")
    \/ PcCommit("api")

\* searches of two callers while index_home and process_changes run.  Each
\* Home search has a thread of its own (spawn_blocking), which runs; nothing
\* is assumed of the threads of index_home and process_changes.
SpecSearch ==
    /\ Init
    /\ [][NextSearch]_vars
    /\ \A c \in Searchers : WF_vars(HomeSearchStep(c))

(***************************************************************************)
(* The FileWatcher and the task that receives its batches.                 *)
(***************************************************************************)
NextWatcher ==
    \/ \E p \in Paths : \E st \in FileStates(p) : FsChange(p, st)
    \/ DebounceTimeout
    \/ WatcherFlush
    \/ DropWatcher
    \/ WatchRecv
    \/ WatchEnd
    \/ PcBegin("watch")
    \/ PcLoop("watch")
    \/ PcCommit("watch")

\* the debouncer's thread and the receiving task keep running
SpecWatcher ==
    /\ Init
    /\ [][NextWatcher]_vars
    /\ WF_vars(DebounceTimeout)
    /\ WF_vars(WatcherFlush)
    /\ WF_vars(WatchRecv)
    /\ WF_vars(PcBegin("watch"))
    /\ WF_vars(PcLoop("watch"))
    /\ WF_vars(PcCommit("watch"))

(***************************************************************************)
(* The startup task when index_home fails: the writer mutex is poisoned    *)
(* by a panic of the watcher task inside process_changes, a field is       *)
(* missing from the schema, or the commit fails.                           *)
(***************************************************************************)
\* the watcher task panics inside process_changes: unwinding drops the guard,
\* which poisons the mutex; the task is gone and with it the receiver
PcHolderPanics(p) ==
    /\ pc[p] \in {"pc_loop", "pc_commit"}
    /\ writer = p
    /\ writer' = "none"
    /\ poisoned' = TRUE
    /\ pc' = [pc EXCEPT ![p] = "dead"]
    /\ chan' = <<>>
    /\ UNCHANGED <<fs, committed, pending, batch, doc_count, events,
                   txBase, fsRead, cleanSince, last, nOps>>
    /\ UNCHANGED <<watcherAlive, cb>>
    /\ UNCHANGED <<progressVars, extraVars, rgVars, openVars, svcVars, searchVars>>

\* index_home: self.writer.lock() is Err("Poisoned lock")
IhBeginPoisoned(p) ==
    /\ pc[p] = "ih_begin"
    /\ writer = "none"
    /\ poisoned
    /\ pc' = [pc EXCEPT ![p] = Return(p)]
    /\ last' = Call("index_home_err", p, <<>>, FALSE)
    /\ UNCHANGED <<fs, committed, pending, writer, batch, doc_count, events, chan,
                   txBase, fsRead, cleanSince, nOps>>
    /\ UNCHANGED <<progressVars, extraVars, rgVars, openVars, svcVars, faultVars, searchVars>>

\* index_home: writer_guard.commit() is Err, after 1.0 was sent
IhCommitFail(p) ==
    /\ pc[p] = "ih_commit"
    /\ \E keep \in BOOLEAN : pending' = IF keep THEN pending ELSE <<>>
    /\ UnlockWriter(p)
    /\ pc' = [pc EXCEPT ![p] = Return(p)]
    /\ last' = Call("index_home_err", p, <<>>, FALSE)
    /\ batch' = [batch EXCEPT ![p] = <<>>]
    /\ cleanSince' = FALSE
    /\ UNCHANGED <<fs, committed, doc_count, events, chan, txBase, fsRead, nOps>>
    /\ UNCHANGED <<progressVars, extraVars, rgVars, openVars, svcVars, faultVars, searchVars>>

\* the steps of the startup task
StartupStep ==
    \/ StartupCheck
    \/ IhSchemaErr("startup")
    \/ IhBeginPoisoned("startup")
    \/ IhBegin("startup")
    \/ IhWalk("startup")
    \/ IhDone("startup")
    \/ IhCommit("startup")
    \/ IhCommitFail("startup")

\* the steps of the debouncer's thread and of the watcher task
WatchStep ==
    \/ DebounceTimeout
    \/ WatcherFlush
    \/ WatchRecv
    \/ PcBegin("watch")
    \/ PcLoop("watch")
    \/ PcCommit("watch")

NextStartup ==
    \/ new_internal
    \/ StartupStep
    \/ WatchStep
    \/ PcHolderPanics("watch")
    \/ \E st \in FileStates(PathF) : FsChange(PathF, st)

\* the index directories new_internal opens as they are: the schema of this
\* version, or one of a version that had no content field
InitStartup ==
    /\ InitOpen
    /\ meta = "ok"
    /\ schema \in {create_schema, create_schema \ {"content"}}

\* SearchEngine::new on such an index directory, with a watcher task that may
\* panic and a commit that may fail.  The blocking thread of the startup task
\* and the watcher task run; the tree changes finitely often.
SpecStartup ==
    /\ InitStartup
    /\ [][NextStartup]_vars
    /\ WF_vars(new_internal)
    /\ WF_vars(StartupStep)
    /\ WF_vars(WatchStep)

(***************************************************************************)
(* The channel between the watcher's callback and the watcher task under   *)
(* load: files are written again and again while the startup rebuild and   *)
(* the watcher task take the writer mutex in turn.                         *)
(***************************************************************************)
\* content_root with the file f
TreeF ==
    [p \in Paths |-> CASE p = content_root -> Dir
                       [] p = PathF -> TextFile(Content1)
                       [] OTHER -> Absent]

\* an entry is written again as it is (a file with the bytes it holds, a
\* directory's times): the tree is as it was and the watcher has an event
\* for the path.  The writes begin when the startup task has read the
\* document count; f is written at any time, content_root only while the
\* rebuild runs, fewer than MaxMixed batches are pending and no other event
\* is; one path per debounce window
FsTouch(p) ==
    /\ exists(fs[p])
    /\ watcherAlive
    /\ pc["startup"] # "s_check"
    /\ events = {}
    /\ p # PathF => Len(chan) < MaxMixed /\ cb = NoBatch /\ writer = "startup"
    /\ events' = {p}
    /\ UNCHANGED <<fs, committed, pending, writer, pc, batch, doc_count, chan,
                   txBase, fsRead, cleanSince, last, nOps>>
    /\ UNCHANGED <<poisoned, watcherAlive, cb>>
    /\ UNCHANGED <<progressVars, extraVars, rgVars, openVars, svcVars, searchVars>>

InitChannel ==
    /\ InitIndex({TreeF}, {EmptyBag})
    /\ extra = NoExtra
    /\ InitRgIdle
    /\ InitSvcOff

\* the steps of the debouncer's thread
DebouncerStep == DebounceTimeout \/ WatcherFlush

\* the steps of the watcher task
WatcherTaskStep ==
    \/ WatchRecv
    \/ PcBegin("watch")
    \/ PcLoop("watch")
    \/ PcCommit("watch")

\* the steps of the startup task when nothing fails
RebuildStep ==
    \/ StartupCheck
    \/ IhBegin("startup")
    \/ IhWalk("startup")
    \/ IhDone("startup")
    \/ IhCommit("startup")

NextChannel ==
    \/ FsTouch(PathF)
    \/ FsTouch(content_root)
    \/ DebouncerStep
    \/ WatcherTaskStep
    \/ RebuildStep

\* the engine from its start on an empty index.  The debouncer's thread, the
\* watcher task and the blocking thread of the startup task each keep running
SpecChannel ==
    /\ InitChannel
    /\ [][NextChannel]_vars
    /\ WF_vars(DebouncerStep)
    /\ WF_vars(WatcherTaskStep)
    /\ WF_vars(RebuildStep)

(***************************************************************************)
(* The SearchService: the tree changes, the indexes are rebuilt, requests  *)
(* are answered.                                                           *)
(***************************************************************************)
\* the service after SearchService::initialize: both indexes created empty
InitService ==
    /\ InitIndex({RootOnly}, {EmptyBag})
    /\ extra = NoExtra
    /\ InitRgIdle
    /\ svcFs \in SvcTrees
    /\ svcIndex = NoSvcIndex
    /\ svcOut = NoSvcOut

engineVars == <<indexVars, progressVars, extraVars, rgVars, openVars, faultVars, searchVars>>

SvcFsChange(t) ==
    /\ t # svcFs
    /\ svcFs' = t
    /\ UNCHANGED <<svcIndex, svcOut, engineVars>>

\* SearchService::rebuild
SvcRebuild ==
    /\ svcIndex' = [k \in SvcDomains |-> SvcRebuildIndex(k, collect_records(svcFs))]
    /\ UNCHANGED <<svcFs, svcOut, engineVars>>

\* SearchService::search(request); one request at a time
SvcSearch(req) ==
    /\ svcOut = NoSvcOut
    /\ \E out \in ServiceSearch(svcFs, svcIndex, req) : svcOut' = [req |-> req, out |-> out]
    /\ UNCHANGED <<svcFs, svcIndex, engineVars>>

\* the caller has taken the outcome
SvcReturn ==
    /\ svcOut # NoSvcOut
    /\ svcOut' = NoSvcOut
    /\ UNCHANGED <<svcFs, svcIndex, engineVars>>

NextService ==
    \/ \E t \in SvcTrees : SvcFsChange(t)
    \/ SvcRebuild
    \/ \E req \in SearchRequest : SvcSearch(req)
    \/ SvcReturn

SpecService == InitService /\ [][NextService]_vars

(***************************************************************************)
(* Properties.                                                             *)
(***************************************************************************)
\* how many documents of idx have the path p
CountAt(idx, p) == BagCardinality([d \in DocsAt(idx, p) |-> idx[d]])

HasNul(c) == \E i \in 1..Len(c) : c[i] = NUL

\* readable text without a null byte, of any size
IsText(st) == is_file(st) /\ st.readable /\ ~HasNul(st.content)

\* C1: after any sequence and interleaving of index_home, process_changes,
\* update_file and remove_file, the committed index holds at most one document
\* per path.
C1_UpsertUnique == \A p \in Paths : CountAt(committed, p) <= 1

\* a call has replaced the document of a path that was indexed before it
C1_Witness ==
    /\ writer = "none"
    /\ last.op \in {"index_home", "process_changes"}
    /\ \E d \in DocsAt(txBase, PathF) : \E e \in DocsAt(committed, PathF) : d # e

\* the last committed call was process_changes on a batch holding p, and the
\* file at p is still what that call read
ProcessedFresh(p) ==
    /\ writer = "none"
    /\ last.op = "process_changes"
    /\ \E i \in 1..Len(last.paths) : last.paths[i] = p
    /\ fsRead[p] = fs[p]

\* what C2 promises for path p, whose document before the call was d
FreshAfter(p, d) ==
    LET new == Tokenize(p \o <<NL>> \o fs[p].content)
    IN  \A q \in Queries :
          /\ (Tokenize(q) # {} /\ Tokenize(q) \subseteq (d.content \ new))
                => p \notin ResultPaths(Search(q))
          /\ (Tokenize(q) # {} /\ Tokenize(q) \subseteq (new \ d.content))
                => p \in ResultPaths(Search(q))

\* C2 as stated: F indexed with C1, overwritten with text C2, process_changes
\* returns Ok: a term only in C1 no longer finds F, a term only in C2 finds F.
C2_Original ==
    \A p \in Paths :
        (ProcessedFresh(p) /\ IsText(fs[p]))
            => \A d \in DocsAt(txBase, p) : d.is_directory = 0 => FreshAfter(p, d)

\* C2 amended: the same, for text C2 of at most 10 MiB.
C2_Freshness ==
    \A p \in Paths :
        (ProcessedFresh(p) /\ IsText(fs[p]) /\ ~fs[p].big)
            => \A d \in DocsAt(txBase, p) : d.is_directory = 0 => FreshAfter(p, d)

\* F was indexed with Content1, was overwritten with Content2 and processed
C2_Witness ==
    /\ ProcessedFresh(PathF)
    /\ fs[PathF] = TextFile(Content2)
    /\ FileDoc(PathF, Content1) \in DocsAt(txBase, PathF)
    /\ PathF \in ResultPaths(Search(<<"B", "A">>))

\* C3: F has a committed entry, F is removed from disk and process_changes([F])
\* returns Ok: the document count is one less and no search returns F.
C3_Deletion ==
    \A p \in Paths :
        (/\ writer = "none"
         /\ last.op = "process_changes"
         /\ last.paths = <<p>>
         /\ ~exists(fsRead[p])
         /\ DocsAt(txBase, p) # {})
            => /\ num_docs(committed) = num_docs(txBase) - 1
               /\ \A q \in Queries : p \notin ResultPaths(Search(q))

C3_Witness ==
    /\ writer = "none"
    /\ last.op = "process_changes"
    /\ last.paths = <<PathF>>
    /\ ~exists(fsRead[PathF])
    /\ DocsAt(txBase, PathF) # {}
    /\ num_docs(committed) >= 1

\* C4: after startup rebuilds and watcher batches, every Home result lies
\* inside the content root and no path outside it is in the index.
C4_ScopeIsolation ==
    /\ \A d \in DOMAIN committed : Inside(d.path, content_root)
    /\ \A q \in Queries : \A p \in ResultPaths(Search(q)) : Inside(p, content_root)


\* C6: index_home twice in a row on an unchanged tree, nothing in between:
\* the document count and every Home search result are the same after the
\* second run as after the first.
C6_IdempotentRebuild ==
    (/\ writer = "none"
     /\ last.op = "index_home"
     /\ last.repeat
     /\ fsRead = fs)
        => /\ num_docs(committed) = num_docs(txBase)
           /\ \A q \in Queries : Search(q) = HomeSearch(txBase, fs, q)

\* a second rebuild of an unchanged tree with a file and a directory in it
C6_Witness ==
    /\ writer = "none"
    /\ last.op = "index_home"
    /\ last.repeat
    /\ fsRead = fs
    /\ num_docs(committed) >= 3

\* the labels at which a task holds the writer mutex
Critical == {"ih_walk", "ih_done", "ih_commit", "pc_loop", "pc_commit", "rf_commit"}

\* the operations the holder has issued so far, from what it read
IssuedBy(p) ==
    IF pc[p] \in {"ih_done", "ih_commit"} THEN IndexWalkOps(fsRead, Walk(fsRead))
    ELSE IF pc[p] = "pc_commit" THEN ProcessOps(fsRead, batch[p])
    ELSE <<>>

\* C7: at most one of index_home, process_changes and remove_file holds the
\* writer, from before its first delete/add until after its commit, so the
\* uncommitted operations are always those of one call alone.
C7_WriterDiscipline ==
    /\ Cardinality({p \in Procs : pc[p] \in Critical}) <= 1
    /\ \A p \in Procs : (pc[p] \in Critical) <=> (writer = p)
    /\ writer = "none" => pending = <<>>
    /\ writer # "none" => pending = IssuedBy(writer)

\* a rebuild holds the writer with operations pending while a watcher batch waits
C7_Witness ==
    /\ pc["startup"] = "ih_commit"
    /\ pending # <<>>
    /\ pc["watch"] = "pc_begin"

\* C8: a Home search concurrent with index_home or process_changes sees the
\* committed state only: none of the call's documents before its commit, all
\* of them after it.
C8_CommittedOnly ==
    /\ writer # "none" => searcher = txBase
    /\ (writer = "none" /\ last.op = "index_home")
          => searcher = ApplyOps(txBase, IndexWalkOps(fsRead, Walk(fsRead)))
    /\ (writer = "none" /\ last.op = "process_changes")
          => searcher = ApplyOps(txBase, ProcessOps(fsRead, last.paths))

\* a call holds the writer with uncommitted operations that would change a search
C8_Witness ==
    /\ writer # "none"
    /\ pending # <<>>
    /\ ApplyOps(committed, pending) # committed
    /\ \E q \in Queries : HomeSearch(ApplyOps(committed, pending), fs, q) # Search(q)

IhLabels == {"ih_begin", "ih_walk", "ih_done", "ih_commit"}

C9_StartupInv ==
    /\ (pc["startup"] # "s_check" /\ doc_count = 0)
          => /\ Len(progressLog) >= 1
             /\ progressLog[1] = P0
             /\ \/ pc["startup"] \in IhLabels
                \/ pc["startup"] = "done" /\ progressLog = <<P0, P0, P1>>
    /\ (pc["startup"] # "s_check" /\ doc_count > 0)
          => /\ pc["startup"] = "done"
             /\ progressLog = <<>>
             /\ progress = P1

C9_StartupStep ==
    (pc["startup"] = "s_check" /\ pc'["startup"] # "s_check")
        => /\ doc_count' = num_docs(committed)
           /\ (num_docs(committed) = 0) <=> (pc'["startup"] = "ih_begin")
           /\ (num_docs(committed) = 0) => progress' = P0
           /\ (num_docs(committed) > 0) => (pc'["startup"] = "done" /\ progress' = progress)

RECURSIVE TotalMatches(_)
TotalMatches(es) ==
    IF es = <<>> THEN 0
    ELSE (IF Head(es).is_file THEN Head(es).matches ELSE 0) + TotalMatches(Tail(es))

\* C5: RipgrepBackend::search never holds more than 100 results, returns
\* exactly 100 when the walked files match more than 100 lines, and opens no
\* further file once 100 are collected.
C5_ResultCap ==
    /\ Len(rgResults) <= MAX_RESULTS
    /\ (rgPc = "done" /\ TotalMatches(rgFiles) > MAX_RESULTS)
          => Len(rgResults) = MAX_RESULTS
    /\ (rgPc = "file" /\ rgMatch = 0) => Len(rgResults) < MAX_RESULTS

\* the search ended at the cap with a file left unvisited
C5_Witness ==
    /\ rgPc = "done"
    /\ Len(rgResults) = MAX_RESULTS
    /\ rgIdx < Len(rgFiles)
    /\ \E i \in (rgIdx + 1)..Len(rgFiles) : rgFiles[i].is_file /\ rgFiles[i].matches > 0

\* C10: every progress value lies in [0,1] and the values sent during one
\* index_home never decrease, whatever the tree.
C10_ProgressRange ==
    \A i \in 1..Len(progressLog) :
        /\ FracLeq(P0, progressLog[i])
        /\ FracLeq(progressLog[i], P1)
        /\ i > 1 => FracLeq(progressLog[i - 1], progressLog[i])

\* the watcher task's loop has ended only when the channel is closed and empty
C11_LoopInv == pc["watch"] = "ended" => (Closed /\ chan = <<>>)

\* after an error the task receives again; a received batch goes to process_changes
C11_LoopStep ==
    /\ pc["watch"] = "pc_err" /\ pc'["watch"] # "pc_err" => pc'["watch"] = "recv"
    /\ Len(chan') < Len(chan) =>
          /\ pc["watch"] = "recv"
          /\ pc'["watch"] = "pc_begin"
          /\ batch'["watch"] = Head(chan)

\* C11: when process_changes returns an error to the watcher task (poisoned
\* writer lock or failed commit) the task goes back to rx.recv(), every
\* batch it receives afterwards is passed to process_changes, and the loop
\* has ended only when the channel is closed and empty.
C11_WatchLoopSurvives == []C11_LoopInv /\ [][C11_LoopStep]_vars

\* a batch is received and handed to process_changes after an error
C11_Witness ==
    /\ pc["watch"] = "pc_begin"
    /\ last.op = "process_changes_err"
    /\ last.by = "watch"

\* new_internal opened the index directory as it was
OpenedUnchanged ==
    /\ pc'["startup"] = "s_check"
    /\ schema' = schema
    /\ committed' = committed

\* new_internal put a new empty index with the full schema in its place
Recreated ==
    /\ pc'["startup"] = "s_check"
    /\ schema' = create_schema
    /\ committed' = EmptyBag

\* C12: opening an existing index whose schema lacks any of the fields path,
\* filename, content, is_directory, last_modified replaces it by a new empty
\* index with the full schema; an index with all of them is opened unchanged.
C12_SchemaMigration ==
    [][pc["startup"] = "new" /\ pc'["startup"] # "new" /\ meta = "ok" =>
          IF create_schema \subseteq schema THEN OpenedUnchanged ELSE Recreated]_vars

\* C13: construction never returns an error on a corrupt index directory or
\* a mismatched schema; it ends with a usable, empty index, which the
\* startup task then rebuilds.
C13_NeverFails ==
    [][pc["startup"] = "new" /\ pc'["startup"] # "new"
       /\ (meta = "corrupt" \/ (meta = "ok" /\ ~(create_schema \subseteq schema))) =>
          /\ pc'["startup"] # "ctor_err"
          /\ IndexFields \subseteq schema'
          /\ num_docs(committed') = 0]_vars

\* a step of some caller's search
SearchStep == spc' # spc

\* a finished search was answered by the backend of its scope, on its root
Routed(c) ==
    spc[c] = "done" =>
        IF sq[c].scope = "Home"
        THEN sres[c].by = "index" /\ sres[c].root = content_root
        ELSE sres[c].by = "ripgrep" /\ sres[c].root = ripgrep_root

\* C14: a Home search is answered by the IndexManager alone and a Root
\* search by the RipgrepBackend on "/" alone, and no step of a search takes
\* the writer or changes the committed or the pending documents.
C14_SearchFrame ==
    /\ [](\A c \in Searchers : Routed(c))
    /\ [][SearchStep =>
            /\ committed' = committed
            /\ pending' = pending
            /\ writer' = writer
            /\ \A c \in Searchers :
                 /\ spc[c] = "home" => UNCHANGED rgVars \/ spc'[c] = "home"
                 /\ spc[c] = "home" /\ spc'[c] # "home" => spc'[c] = "done"]_vars

\* a Home and a Root search have both returned results from an index that
\* holds documents
C14_Witness ==
    /\ spc["s1"] = "done" /\ sq["s1"].scope = "Home" /\ Results("s1") # <<>>
    /\ spc["s2"] = "done" /\ sq["s2"].scope = "Root" /\ Results("s2") # <<>>
    /\ num_docs(committed) > 0

\* C15: a Home search that has been issued completes even if the holder of
\* the writer mutex never goes on and the other caller's search never
\* completes, and it returns the last committed state.
C15_SearchNeverWaits ==
    /\ \A c \in Searchers : (spc[c] = "home") ~> (spc[c] = "done")
    /\ [][\A c \in Searchers :
            spc[c] = "home" /\ spc'[c] = "done" /\ sres'[c].ok =>
                sres'[c].idx = committed /\ sres'[c].files = fs]_vars

\* a Home search has completed while process_changes holds the writer with
\* uncommitted operations and the other caller's Home search is pending
C15_Witness ==
    /\ writer = "api"
    /\ pc["api"] = "pc_commit"
    /\ pending # <<>>
    /\ spc["s1"] = "done" /\ sres["s1"].by = "index" /\ Results("s1") # <<>>
    /\ spc["s2"] = "home"

\* a search with a query its backend rejects returned Err with no results
Rejected(c) ==
    spc[c] = "done" /\ sq[c].q = BadQuery => ~sres[c].ok /\ Results(c) = <<>>

\* C19: a Root search with an invalid regex and a Home search with a query
\* the parser rejects return Err with no results in their first step: no
\* file is walked, no hit is read, nothing is retried and the index is not
\* changed.
C19_BadQuery ==
    /\ [](\A c \in Searchers : Rejected(c))
    /\ [][\A c \in Searchers :
            spc[c] \in {"home", "root"} /\ spc'[c] # spc[c] /\ sq[c].q = BadQuery =>
                /\ spc'[c] = "done"
                /\ UNCHANGED rgVars
                /\ UNCHANGED <<committed, pending, writer>>]_vars

\* both backends have rejected a query
C19_Witness ==
    /\ spc["s1"] = "done" /\ sq["s1"] = [q |-> BadQuery, scope |-> "Home"] /\ ~sres["s1"].ok
    /\ spc["s2"] = "done" /\ sq["s2"] = [q |-> BadQuery, scope |-> "Root"] /\ ~sres["s2"].ok

\* the regular files directly under the content root
FilesIn(fsv) == {p \in Paths : p # content_root /\ Inside(p, content_root) /\ is_file(fsv[p])}

\* the content root holds regular text files and no subdirectory
TextFilesOnly(fsv) ==
    /\ is_dir(fsv[content_root])
    /\ \A p \in Paths :
         (p # content_root /\ Inside(p, content_root) /\ exists(fsv[p]))
             => IsText(fsv[p]) /\ ~fsv[p].big

\* C16: index_home(None) on a new index and a content root with exactly N
\* regular text files and no subdirectories leaves N committed documents.
C16_DocCountEqualsFiles ==
    (/\ writer = "none"
     /\ last.op = "index_home"
     /\ last.by = "api"
     /\ txBase = EmptyBag
     /\ TextFilesOnly(fsRead))
        => num_docs(committed) = Cardinality(FilesIn(fsRead))

Skipped(st) == is_file(st) /\ (st.big \/ ~st.readable \/ HasNul(st.content))

\* the document index_home writes for an entry it indexes
DocFor(p, st) == IF is_dir(st) THEN DirDoc(p) ELSE FileDoc(p, st.content)

\* C18: index_home returns Ok on a tree with a file that has a null byte, is
\* not UTF-8, is over 10 MiB or is unreadable: that file gets no document,
\* and every other entry of the walk has its document committed.
C18_SkipAndContinue ==
    (/\ writer = "none"
     /\ last.op = "index_home"
     /\ \E p \in Paths : Inside(p, content_root) /\ Skipped(fsRead[p]))
        => \A p \in Paths :
             Inside(p, content_root) /\ exists(fsRead[p]) =>
                IF Skipped(fsRead[p])
                THEN \A d \in DocsAt(committed, p) : d \in DocsAt(txBase, p)
                ELSE DocsAt(committed, p) = {DocFor(p, fsRead[p])}

\* a rebuild has skipped a binary file and indexed the directory next to it
C18_Witness ==
    /\ writer = "none"
    /\ last.op = "index_home"
    /\ fsRead[PathF] = TextFile(ContentBin)
    /\ DocsAt(committed, PathF) = {}
    /\ DocsAt(committed, PathG) = {DirDoc(PathG)}
    /\ DocsAt(committed, content_root) = {DirDoc(content_root)}

\* the receiver has received a batch that holds p
Received(p) ==
    /\ pc["watch"] = "pc_begin"
    /\ \E i \in 1..Len(batch["watch"]) : batch["watch"][i] = p

\* a change under the watched root is reported while the watcher lives
Reported == \A p \in Paths : (p \in events) ~> (Received(p) \/ ~watcherAlive)

\* C20 as stated: a change under the watched root leads to a received batch
\* with its path while the watcher lives, and once the FileWatcher is
\* dropped no batch is sent.
C20_Original ==
    /\ Reported
    /\ [][~watcherAlive => Len(chan') <= Len(chan)]_vars

\* C20 amended: the same, except that the one batch whose callback was
\* already running when the FileWatcher was dropped may still be sent; no
\* batch is collected after the drop.
C20_WatcherDelivers ==
    /\ Reported
    /\ [][~watcherAlive =>
            /\ events' = {}
            /\ cb' \in {cb, NoBatch}
            /\ Len(chan') > Len(chan) => cb # NoBatch /\ chan' = Append(chan, cb)]_vars

\* the receiver holds the batch of a file written under the watched root
C20_Witness ==
    /\ watcherAlive
    /\ Received(PathF)
    /\ exists(fs[PathF])
    /\ events = {}

\* a request with scope Subtree(p) where p resolves outside base_path
ScopeOutside(t, req) ==
    /\ ~req.scope.root
    /\ canonicalize(t, req.scope.path)[1]
    /\ ~Inside(canonicalize(t, req.scope.path)[2], base_path)

\* a request with scope Subtree(p) where p resolves inside base_path
ScopeInside(t, req) ==
    /\ ~req.scope.root
    /\ canonicalize(t, req.scope.path)[1]
    /\ Inside(canonicalize(t, req.scope.path)[2], base_path)

HitsUnder(hits, root) == \A i \in 1..Len(hits) : Inside(hits[i].path, root)

\* a step of SearchService::search
SvcSearched == svcOut = NoSvcOut /\ svcOut' # NoSvcOut

\* as stated: every request with a scope outside base_path is rejected with
\* InvalidScope and the index is not queried, whatever its limit
C21_Original ==
    [][SvcSearched /\ ScopeOutside(svcFs, svcOut'.req) =>
           svcOut'.out.status = "invalid_scope" /\ ~svcOut'.out.queried]_vars

\* C21: SearchService::search with limit 0 returns Ok with no hit for every
\* scope, without resolving the scope or querying the index; with a limit
\* above 0 and scope Subtree(p), it returns Err(InvalidScope) without querying
\* the index when p resolves outside base_path, and when p resolves inside
\* base_path every hit's path is the resolved p or lies under it; for every
\* scope at most limit hits are returned
C21_ScopeAndLimit ==
    [][SvcSearched =>
           LET req == svcOut'.req
               out == svcOut'.out
           IN  /\ Len(out.hits) <= req.limit
               /\ req.limit = 0 => out = Outcome("ok", FALSE, <<>>)
               /\ req.limit > 0 /\ ScopeOutside(svcFs, req) =>
                      out = Outcome("invalid_scope", FALSE, <<>>)
               /\ req.limit > 0 /\ ScopeInside(svcFs, req) =>
                      HitsUnder(out.hits, canonicalize(svcFs, req.scope.path)[2])]_vars

\* a search for f in the subtree g has returned the file f below g and not
\* the file f beside g, which the index holds too
C21_Witness ==
    /\ svcOut.req = [domain |-> "FileNames", query |-> <<"f">>, mode |-> Exact,
                     scope |-> Subtree(PathG), limit |-> 1]
    /\ svcOut.out.status = "ok"
    /\ Len(svcOut.out.hits) = 1
    /\ svcOut.out.hits[1].path = SvcGF
    /\ \E d \in svcIndex.FileNames : d.path = PathF

\* C22: after process_changes has committed a batch, every path of the batch
\* that existed has the entry index_home would write for it, a file entry for
\* an indexable file and a directory entry for a directory, and every path of
\* the batch that did not exist has no entry.
C22_SameEntryAsRebuild ==
    (writer = "none" /\ last.op = "process_changes")
        => \A i \in 1..Len(last.paths) :
              LET p == last.paths[i]
                  st == fsRead[p]
              IN  /\ is_file(st) /\ ~Skipped(st) =>
                         DocsAt(committed, p) = {FileDoc(p, st.content)}
                  /\ is_dir(st) => DocsAt(committed, p) = {DirDoc(p)}
                  /\ ~exists(st) => DocsAt(committed, p) = {}

\* the 1-based numbers of the lines of the file at st that contain the raw
\* query q, case folded
MatchingLines(st, q) ==
    IF is_file(st) /\ st.readable
    THEN {n \in 1..Len(Lines(st.content)) :
             Contains(ToLower(Lines(st.content)[n]), ToLower(q))}
    ELSE {}

\* the index matched d through its filename field and not its content field
FilenameOnly(d, q) ==
    Tokenize(q) \cap d.filename # {} /\ Tokenize(q) \cap d.content = {}

\* C23: of a Home search, there are at most 50 hits; a directory hit yields one
\* result with line_number 0; a file hit yields one result per line of the
\* file on disk that contains the raw query, numbered from 1, or one result
\* with line_number 0 when there is no such line; every hit yields a result,
\* and line_number 0 appears only for a directory hit or a hit matched by
\* filename alone.
C23_LineNumbers ==
    \A q \in Queries :
        LET hits == TopDocs(searcher, q)
        IN  /\ Len(hits) <= HitLimit
            /\ \A i \in 1..Len(hits) :
                  LET d == hits[i]
                      rs == HitResults(d, fs, q)
                      ml == MatchingLines(fs[d.path], q)
                  IN  /\ Len(rs) >= 1
                      /\ d.is_directory = 1 => Len(rs) = 1 /\ rs[1].line_number = 0
                      /\ d.is_directory = 0 /\ ml # {} =>
                            /\ Len(rs) = Cardinality(ml)
                            /\ {rs[j].line_number : j \in 1..Len(rs)} = ml
                      /\ d.is_directory = 0 /\ ml = {} =>
                            Len(rs) = 1 /\ rs[1].line_number = 0
                      /\ \A j \in 1..Len(rs) :
                            rs[j].line_number = 0 =>
                                d.is_directory = 1 \/ FilenameOnly(d, q)

\* index_home with a progress sender has sent its last value
IhSentAll(p) ==
    \/ pc[p] = "ih_commit"
    \/ pc[p] = Return(p) /\ last.op = "index_home" /\ last.by = p

\* the indexing walk of index_home has run over fewer than 100 entries
ShortWalk(p) ==
    /\ pc[p] = "ih_walk"
    /\ pc'[p] = "ih_done"
    /\ WalkLen(fs, extra) < ProgressEvery

\* C24: an index_home call with a progress sender that has come to its commit
\* or has returned sent 1.0 as its last value; when its walk visited fewer
\* than 100 entries, none included, the walk sent no value at all, so that
\* the call sent 0.0 and 1.0 only.
C24_FinalProgress ==
    /\ [](IhSentAll("startup") =>
             /\ progressLog # <<>>
             /\ progressLog[Len(progressLog)] = P1
             /\ progress = P1)
    /\ [][ShortWalk("startup") => progressLog' = progressLog]_vars

\* index_home has returned after a walk of no entry: content_root does not
\* exist, nothing was counted, and the values sent are the engine's 0.0, then
\* 0.0 and 1.0
C24_Witness ==
    /\ pc["startup"] = "done"
    /\ last.op = "index_home"
    /\ fsRead = NoRoot
    /\ total_files = 0
    /\ progressLog = <<P0, P0, P1>>

\* C25: after process_changes has committed a batch, a path of the batch that
\* was missing, or was a file that is not indexed (null byte, not UTF-8, over
\* 10 MiB, unreadable), has no entry: an entry written from an earlier
\* version of the file is gone.
C25_NoStaleEntry ==
    (writer = "none" /\ last.op = "process_changes")
        => \A i \in 1..Len(last.paths) :
              LET p == last.paths[i]
                  st == fsRead[p]
              IN  ~exists(st) \/ Skipped(st) => DocsAt(committed, p) = {}

\* the paths that have an entry in the index idx
IndexedPaths(idx) == {p \in Paths : DocsAt(idx, p) # {}}

\* the directories and indexable files the walk of content_root visited
WalkIndexable(fsv) ==
    {p \in Paths : /\ \E i \in 1..Len(Walk(fsv)) : Walk(fsv)[i] = p
                   /\ is_dir(fsv[p]) \/ (is_file(fsv[p]) /\ ~Skipped(fsv[p]))}

\* C26: after index_home has returned Ok, the paths of the committed index
\* are the indexable files and the directories that its walk of content_root
\* visited; no entry is left of a path that is no longer in the tree.
C26_IndexEqualsTree ==
    (writer = "none" /\ last.op = "index_home")
        => IndexedPaths(committed) = WalkIndexable(fsRead)

\* the startup task has reset progress to 0.0: its rebuild began
RebuildBegan == progressLog # <<>> /\ progressLog[1] = P0

\* C27: when progress is 1.0 after the startup rebuild began, index_home has
\* returned: the rebuild holds no uncommitted operation, and what it wrote is
\* in the index a new searcher opens.
C27_DoneMeansCommitted ==
    (RebuildBegan /\ progress = P1)
        => /\ pc["startup"] = "done"
           /\ ~(writer = "startup" /\ pending # <<>>)

\* C28: when the index holds no document as the engine opens it, the startup
\* task never finishes without having run the full rebuild, whatever the
\* watcher task has committed before the startup task reads the count.
C28_EmptyIndexRebuilt == pc["startup"] = "done" => RebuildBegan

\* C29: once the startup task has reset progress to 0.0, progress becomes 1.0
\* again, also when index_home returns an error.
C29_ProgressCompletes == RebuildBegan ~> (progress = P1)

\* the callback waits in blocking_send: the channel holds 100 batches
Blocked == cb # NoBatch /\ Len(chan) = ChannelCap

\* the channel changes only by a send that appends the callback's batch or by
\* a receive that takes the oldest batch; the callback's batch leaves it only
\* by being appended; a received batch goes to process_changes as it is
ChannelStep ==
    /\ chan' # chan =>
          \/ /\ cb # NoBatch
             /\ Len(chan) < ChannelCap
             /\ chan' = Append(chan, cb)
             /\ cb' = NoBatch
          \/ /\ pc["watch"] = "recv"
             /\ chan # <<>>
             /\ chan' = Tail(chan)
             /\ batch'["watch"] = Head(chan)
             /\ pc'["watch"] = "pc_begin"
    /\ cb # NoBatch /\ cb' # cb => cb' = NoBatch /\ chan' = Append(chan, cb)
    /\ pc["watch"] = "pc_begin" /\ pc'["watch"] # "pc_begin" =>
          /\ pc'["watch"] = "pc_loop"
          /\ writer' = "watch"
          /\ batch'["watch"] = batch["watch"]

\* C30: while the engine is alive no batch is lost: the channel never holds
\* more than 100 batches and the callback waits while it holds 100; batches
\* are sent to the tail and received from the head, and a received batch is
\* passed to process_changes as it is; while a batch is pending the watcher
\* task eventually gets the writer mutex in process_changes; and a batch the
\* callback holds is eventually sent.
C30_NoBatchLost ==
    /\ [](Len(chan) <= ChannelCap)
    /\ [][ChannelStep]_vars
    /\ (chan # <<>>) ~> (pc["watch"] = "pc_loop")
    /\ (cb # NoBatch) ~> (cb = NoBatch)

\* the callback waits on a full channel whose oldest batch is not like the
\* others, while the watcher task waits for the writer mutex and the rebuild
\* holds it
C30_Witness ==
    /\ Blocked
    /\ Head(chan) # chan[ChannelCap]
    /\ pc["watch"] = "pc_begin"
    /\ writer = "startup"

====
